---------------------------- MODULE Spec2Model ----------------------------
(***************************************************************************)
(* Birthday equation generators: the digit extractor, the partition        *)
(* generator, the expression builders, the evaluators and the search loops *)
(* of BirthdayEquationGenerator (birthday_equation.py) and of              *)
(* AdvancedBirthdayEquationGenerator (advanced_birthday_equation.py).      *)
(*                                                                         *)
(* An expression text is the sequence of its lexical tokens (the Python    *)
(* tokenizer drops the blanks), and the evaluators parse that sequence     *)
(* with the grammar and the precedences of Python's eval.                  *)
(*                                                                         *)
(* Numbers are exact: a rational, or a rational plus one radical.  Python  *)
(* computes in binary floating point and compares within 1e-10; for the    *)
(* magnitudes of the model the rounding error stays far below that, so a   *)
(* float is identified with the real number it approximates, and an int    *)
(* with the float of the same value (as Python's == and hash do).          *)
(***************************************************************************)
EXTENDS Integers, Sequences, FiniteSets, Bags, TLC

\* ---------------------------------------------------------------- bounds
\* Largest digit an input of the exhaustive part of Inputs may hold.
MaxDigit == 3
\* Longest raw input string of the exhaustive part of Inputs.
MaxInputLen == 3
\* Arithmetic range of the model: a numerator beyond MaxAbs or a denominator
\* beyond MaxDen makes the value "beyond" (the candidate is left out).
MaxAbs == 1000000000
MaxDen == 30000

\* ------------------------------------------------------------ small helpers
Abs(x) == IF x < 0 THEN -x ELSE x

Sgn(x) == IF x < 0 THEN -1 ELSE IF x = 0 THEN 0 ELSE 1

Min(a, b) == IF a < b THEN a ELSE b

Range(f) == {f[x] : x \in DOMAIN f}

RECURSIVE Gcd(_, _)
Gcd(a, b) == IF b = 0 THEN a ELSE Gcd(b, a % b)

\* ------------------------------------------------------------------ values
\* k = "rat"     : the number n/d (d >= 1, lowest terms)
\* k = "surd"    : n/d + s * (mn/md)^(1/m), s in {-1,1}, m >= 2 least such
\*                 that the m-th power of the radical is rational
\* k = "complex" : a Python complex (never accepted as a result)
\* k = "beyond"  : a real outside the arithmetic range of the model
\* k = "err"     : an exception, named by e
Val(k, n, d, s, mn, md, m, e) ==
    [k |-> k, n |-> n, d |-> d, s |-> s, mn |-> mn, md |-> md, m |-> m, e |-> e]

Beyond == Val("beyond", 0, 1, 0, 0, 1, 0, "")

Complex == Val("complex", 0, 1, 0, 0, 1, 0, "")

Err(e) == Val("err", 0, 1, 0, 0, 1, 0, e)

IsErr(v) == v.k = "err"
\* n/d for d >= 1 and g = gcd(|n|, d), brought to lowest terms.
Lowest(n, d, g) ==
    IF Abs(n \div g) > MaxAbs \/ d \div g > MaxDen THEN Beyond
    ELSE Val("rat", n \div g, d \div g, 0, 0, 1, 0, "")

\* n/d brought to lowest terms with a positive denominator.
Rat(n, d) == Lowest(Sgn(d) * n, Abs(d), Gcd(Abs(n), Abs(d)))

IntVal(i) ==
    IF Abs(i) > MaxAbs THEN Beyond ELSE Val("rat", i, 1, 0, 0, 1, 0, "")

\* The rational part of a surd (or a rational itself).
RatPart(v) == Val("rat", v.n, v.d, 0, 0, 1, 0, "")

\* a * b, or "over" when the product leaves the range.
MulOver(a, b) == a # 0 /\ b # 0 /\ Abs(a) > MaxAbs \div Abs(b)

AddOver(a, b) == Abs(a) > MaxAbs \/ Abs(b) > MaxAbs \/ Abs(a + b) > MaxAbs

\* h * h * f for h, f >= 0, or -1 when it or a factor is beyond the range.
IMulSq(h, f) ==
    IF h < 0 \/ MulOver(h, h) \/ MulOver(h * h, f) THEN -1 ELSE h * h * f

\* x^k for an integer x >= 2 and k >= 1, by squaring; -1 stands for a result
\* beyond the range.
RECURSIVE IPowAcc(_, _)
IPowAcc(x, k) ==
    IF k = 1 THEN (IF MulOver(1, x) THEN -1 ELSE x)
    ELSE IMulSq(IPowAcc(x, k \div 2), IF k % 2 = 1 THEN x ELSE 1)

\* x^k for an integer x and k >= 0; -1 stands for a result beyond the range
\* (only used with x >= 0). 2^30 is beyond the range already.
IPow(x, k) ==
    IF k = 0 THEN 1
    ELSE IF x = 0 \/ x = 1 THEN x
    ELSE IF k >= 30 THEN -1
    ELSE IPowAcc(x, k)

\* The largest of a non-empty set of integers.
Largest(S) == CHOOSE g \in S : \A h \in S : h <= g

\* x^g <= n for a candidate root x of n: no root is above 31623, whose
\* square is beyond the range.
IRootAt(n, g, x) ==
    x = 0 \/ (x <= Min(n, 31623) /\ IPow(x, g) >= 0 /\ IPow(x, g) <= n)

\* The largest lo + a * step, a in 0..31, that is a candidate root of n.
IRootIn(n, g, lo, step) ==
    lo + step * Largest({a \in 0..31 : IRootAt(n, g, lo + a * step)})

\* Floor of the g-th root of n (n >= 1, g >= 1), digit by digit in base 32.
IRoot(n, g) ==
    IF g = 1 THEN n ELSE IRootIn(n, g, IRootIn(n, g, IRootIn(n, g, 0, 1024), 32), 1)

IsPerfectPower(n, g) == n = 1 \/ (g <= 30 /\ IPow(IRoot(n, g), g) = n)

\* The largest g <= cand dividing b such that n/d is the g-th power of a
\* rational (n, d >= 1).
RootDegree(n, d, b, cand) ==
    Largest({1} \cup {g \in 2..cand : /\ b % g = 0
                                      /\ IsPerfectPower(n, g)
                                      /\ IsPerfectPower(d, g)})

\* q + s * (mn/md)^(1/m) for a rational q and g = gcd(mn, md).
SurdOf(q, s, mn, md, m, g) ==
    IF q.k = "beyond" \/ mn \div g > MaxAbs \/ md \div g > MaxDen THEN Beyond
    ELSE Val("surd", q.n, q.d, s, mn \div g, md \div g, m, "")

\* n/d + s * (mn/md)^(1/m), the radical in least degree.
Surd(n, d, s, mn, md, m) == SurdOf(Rat(n, d), s, mn, md, m, Gcd(mn, md))

\* (mn/md)^(1/b) when mn/md is a g-th power and g divides b.
RadicalBy(mn, md, b, g) ==
    IF b \div g = 1 THEN Rat(IRoot(mn, g), IRoot(md, g))
    ELSE Surd(0, 1, 1, IRoot(mn, g), IRoot(md, g), b \div g)

\* (mn/md)^(1/b) for mn/md > 0 and b >= 1, as a rational or a surd.
RadicalOf(mn, md, b) ==
    IF mn = md THEN IntVal(1)
    ELSE RadicalBy(mn, md, b, RootDegree(mn, md, b, Min(b, 30)))

\* ------------------------------------------------- arithmetic on rationals
RatAdd(a, b) ==
    IF a.d = 1 /\ b.d = 1 THEN IntVal(a.n + b.n)
    ELSE IF MulOver(a.n, b.d) \/ MulOver(b.n, a.d) THEN Beyond
    ELSE IF AddOver(a.n * b.d, b.n * a.d) THEN Beyond
    ELSE Rat(a.n * b.d + b.n * a.d, a.d * b.d)

RatNeg(a) == Val("rat", -a.n, a.d, 0, 0, 1, 0, "")

\* (an/ad) * (bn/bd), the four already reduced crosswise.
RatProduct(an, ad, bn, bd) ==
    IF MulOver(an, bn) \/ MulOver(ad, bd) THEN Beyond ELSE Rat(an * bn, ad * bd)

\* a * b with g1 = gcd(|a.n|, b.d) and g2 = gcd(|b.n|, a.d).
RatMulBy(a, b, g1, g2) ==
    RatProduct(a.n \div g1, a.d \div g2, b.n \div g2, b.d \div g1)

RatMul(a, b) ==
    IF a.d = 1 /\ b.d = 1
    THEN (IF MulOver(a.n, b.n) THEN Beyond ELSE IntVal(a.n * b.n))
    ELSE RatMulBy(a, b, Gcd(Abs(a.n), b.d), Gcd(Abs(b.n), a.d))

\* 1/a for a # 0.
RatInv(a) == IF Abs(a.n) > MaxDen THEN Beyond ELSE Rat(Sgn(a.n) * a.d, Abs(a.n))

IsInteger(a) == a.k = "rat" /\ a.d = 1

\* sg * pn/pd for two powers, either of which may be beyond the range.
RatOfPowers(sg, pn, pd) == IF pn < 0 \/ pd < 0 THEN Beyond ELSE Rat(sg * pn, pd)

\* a^k for a rational a and an integer k >= 0.
RatPowNat(a, k) ==
    IF k = 0 THEN IntVal(1)
    ELSE RatOfPowers(IF a.n < 0 /\ k % 2 = 1 THEN -1 ELSE 1,
                     IPow(Abs(a.n), k), IPow(a.d, k))

\* ---------------------------------------------------- arithmetic on surds
\* q + s * (v.mn/v.md * pn/pd)^(1/v.m): the radical of v scaled by a
\* number whose v.m-th power is pn/pd.
SurdScaled(v, q, s, pn, pd) ==
    IF q.k = "beyond" \/ pn < 0 \/ pd < 0 THEN Beyond
    ELSE IF MulOver(v.mn, pn) \/ MulOver(v.md, pd) THEN Beyond
    ELSE Surd(q.n, q.d, s, v.mn * pn, v.md * pd, v.m)

\* x * v for a rational x # 0 and a surd v.
SurdScale(v, x) ==
    SurdScaled(v, RatMul(RatPart(v), x), v.s * Sgn(x.n),
               IPow(Abs(x.n), v.m), IPow(x.d, v.m))

\* The surd v with the rational part q.
SurdAt(v, q) ==
    IF q.k = "beyond" THEN Beyond ELSE Surd(q.n, q.d, v.s, v.mn, v.md, v.m)

SurdShift(v, x) == SurdAt(v, RatAdd(RatPart(v), x))

\* The sign of q + s R for q and s of opposite signs, |q|^m = qn/qd.
SurdSignBy(v, qn, qd) ==
    IF qn < 0 \/ qd < 0 THEN 0
    ELSE IF MulOver(qn, v.md) \/ MulOver(v.mn, qd) THEN 0
    ELSE IF qn * v.md > v.mn * qd THEN Sgn(v.n) ELSE v.s

\* The sign of a surd: 1, -1, or 0 when the model cannot tell.
SurdSign(v) ==
    IF v.n = 0 \/ Sgn(v.n) = v.s THEN v.s
    ELSE SurdSignBy(v, IPow(Abs(v.n), v.m), IPow(v.d, v.m))

\* sg * (pn/pd)^(1/m), a rational when m = 1.
RadicalPower(sg, pn, pd, m) ==
    IF pn < 0 \/ pd < 0 THEN Beyond
    ELSE IF m = 1 THEN Rat(sg * pn, pd)
    ELSE Surd(0, 1, sg, pn, pd, m)

\* (s R)^k for a pure radical v = s R and g = gcd(k, v.m).
RadicalPowNat(v, k, g) ==
    RadicalPower(IF v.s < 0 /\ k % 2 = 1 THEN -1 ELSE 1,
                 IPow(v.mn, k \div g), IPow(v.md, k \div g), v.m \div g)

\* ------------------------------------------- Python's operators on values
\* The operands are values, not exceptions.  An operand that is beyond the
\* range of the model keeps the result beyond it.
IsZero(v) == v.k = "rat" /\ v.n = 0

PyAdd(a, b) ==
    IF a.k = "complex" \/ b.k = "complex" THEN Complex
    ELSE IF a.k = "beyond" \/ b.k = "beyond" THEN Beyond
    ELSE IF a.k = "rat" /\ b.k = "rat" THEN RatAdd(a, b)
    ELSE IF a.k = "surd" /\ b.k = "rat" THEN SurdShift(a, b)
    ELSE IF a.k = "rat" /\ b.k = "surd" THEN SurdShift(b, a)
    ELSE Beyond

PyMul(a, b) ==
    IF a.k = "complex" \/ b.k = "complex" THEN Complex
    ELSE IF a.k = "beyond" \/ b.k = "beyond" THEN Beyond
    ELSE IF a.k = "rat" /\ b.k = "rat" THEN RatMul(a, b)
    ELSE IF IsZero(a) \/ IsZero(b) THEN IntVal(0)
    ELSE IF a.k = "surd" /\ b.k = "rat" THEN SurdScale(a, b)
    ELSE IF a.k = "rat" /\ b.k = "surd" THEN SurdScale(b, a)
    ELSE Beyond

PyNeg(b) ==
    IF b.k = "rat" THEN RatNeg(b)
    ELSE IF b.k = "surd" THEN SurdScale(b, IntVal(-1))
    ELSE b

PySub(a, b) == PyAdd(a, PyNeg(b))

\* A division that gives the dividend back for a zero divisor (mutant of
\* PyDiv).
PyDivByZeroAllowed(a, b) ==
    IF IsZero(b) THEN a
    ELSE IF a.k = "complex" \/ b.k = "complex" THEN Complex
    ELSE IF a.k = "beyond" \/ b.k = "beyond" THEN Beyond
    ELSE IF a.k = "rat" /\ b.k = "rat" /\ a.d = 1 /\ b.d = 1 THEN Rat(a.n, b.n)
    ELSE IF b.k = "rat" THEN PyMul(a, RatInv(b))
    ELSE Beyond

\* a / b: ZeroDivisionError for a zero divisor, whatever the dividend.
PyDiv(a, b) ==
    IF IsZero(b) THEN Err("ZeroDivisionError")
    ELSE IF a.k = "complex" \/ b.k = "complex" THEN Complex
    ELSE IF a.k = "beyond" \/ b.k = "beyond" THEN Beyond
    ELSE IF a.k = "rat" /\ b.k = "rat" /\ a.d = 1 /\ b.d = 1 THEN Rat(a.n, b.n)
    ELSE IF b.k = "rat" THEN PyMul(a, RatInv(b))
    ELSE Beyond

\* v^k for a surd v and an integer k >= 0.
SurdPowNat(v, k) ==
    IF k = 0 THEN IntVal(1)
    ELSE IF k = 1 THEN v
    ELSE IF v.n = 0 THEN RadicalPowNat(v, k, Gcd(k, v.m))
    ELSE IF k = 2 /\ v.m = 2 THEN
        \* (q + s R)^2 = 2 q (s R) + (q^2 + R^2)
        PyAdd(PyMul(Surd(0, 1, v.s, v.mn, v.md, 2), RatMul(IntVal(2), RatPart(v))),
              PyAdd(RatMul(RatPart(v), RatPart(v)), Rat(v.mn, v.md)))
    ELSE Beyond

\* The q-th root of a rational base > 0 (q >= 1).
RootOfBase(base, q) ==
    IF base.k = "beyond" THEN Beyond
    ELSE IF q = 1 THEN base
    ELSE RadicalOf(base.n, base.d, q)

\* r^p for a rational or a surd r and p >= 0.
PowNat(r, p) ==
    IF r.k = "beyond" THEN Beyond
    ELSE IF r.k = "rat" THEN RatPowNat(r, p)
    ELSE SurdPowNat(r, p)

\* a ** b.  A negative base with a fractional exponent gives a complex;
\* zero to a negative power raises ZeroDivisionError.
PyPow(a, b) ==
    IF IsZero(b) THEN (IF a.k = "complex" THEN Complex ELSE IntVal(1))
    ELSE IF a.k = "complex" \/ b.k = "complex" THEN Complex
    ELSE IF a.k = "beyond" \/ b.k = "beyond" THEN Beyond
    ELSE IF b.k # "rat" THEN Beyond
    ELSE IF a.k = "surd" THEN
        (IF b.d = 1 /\ b.n > 0 THEN SurdPowNat(a, b.n) ELSE Beyond)
    ELSE IF a.n = 0 THEN
        (IF b.n < 0 THEN Err("ZeroDivisionError") ELSE IntVal(0))
    ELSE IF a.n < 0 /\ b.d > 1 THEN Complex
    ELSE \* a^(p/q) with a # 0, and a > 0 when q > 1
         PowNat(RootOfBase(IF b.n < 0 THEN RatInv(a) ELSE a, b.d), Abs(b.n))

\* ------------------------------------------------------ fact and root
RECURSIVE Factorial(_)
Factorial(n) == IF n <= 1 THEN 1 ELSE n * Factorial(n - 1)

\* int(n): truncation towards zero.
Trunc(v) == Sgn(v.n) * (Abs(v.n) \div v.d)

\* fact(n) of both evaluators: int(n), then the guards ni < 0 and ni > 12,
\* then the product 2 * ... * ni.
fact(n) ==
    IF n.k = "complex" THEN Err("ValueError")
    ELSE IF n.k # "rat" THEN Beyond
    ELSE IF Trunc(n) < 0 THEN Err("ValueError")
    ELSE IF Trunc(n) > 12 THEN Err("ValueError")
    ELSE IntVal(Factorial(Trunc(n)))

\* root(a, b) of both evaluators: b == 0 raises ZeroDivisionError, float()
\* of a complex raises TypeError, else float(a) ** (1.0 / float(b)).
root(a, b) ==
    IF IsZero(b) THEN Err("ZeroDivisionError")
    ELSE IF a.k = "complex" \/ b.k = "complex" THEN Err("TypeError")
    ELSE IF a.k = "beyond" \/ b.k # "rat" THEN Beyond
    ELSE IF b.n = 1 /\ b.d = 1 THEN a
    ELSE IF a.k = "rat" THEN
        (IF b.d = 1 /\ b.n > 0 THEN
            (IF a.n = 0 THEN IntVal(0)
             ELSE IF a.n < 0 THEN Complex
             ELSE RadicalOf(a.n, a.d, b.n))
         ELSE PyPow(a, RatInv(b)))
    ELSE IF b.d = 1 /\ b.n > 0 THEN
        (IF SurdSign(a) < 0 THEN Complex
         ELSE IF SurdSign(a) = 0 \/ a.n # 0 \/ MulOver(a.m, b.n) THEN Beyond
         ELSE RadicalOf(a.mn, a.md, a.m * b.n))
    ELSE Beyond

\* ------------------------------------------------------------------ tokens
Num(n) == [s |-> "num", n |-> n]

Sym(x) == [s |-> x, n |-> 0]

\* ------------------------------------------------- eval of a token sequence
\* eval compiles the text and then runs it: a text that does not parse
\* raises SyntaxError before anything is evaluated.
\*
\* A syntax tree: a number, fact(a), root(a, b), or a binary operation.
Node(op, n, a, b) == [op |-> op, n |-> n, a |-> a, b |-> b]

Nil == <<>>

\* The tree parsed and the place after it; place 0 when the text is wrong.
Parsed(v, p) == [v |-> v, p |-> p]

Syntax == Parsed(Nil, 0)

TokAt(t, i) == IF i <= Len(t) THEN t[i].s ELSE "end"

\* The tree of "a op b", ending where b ends.
Join(op, a, b) == IF b.p = 0 THEN Syntax ELSE Parsed(Node(op, 0, a.v, b.v), b.p)

\* The tree closed by the parenthesis that must stand at its end.
Closed(t, r) ==
    IF r.p = 0 \/ TokAt(t, r.p) # ")" THEN Syntax ELSE Parsed(r.v, r.p + 1)

RECURSIVE ParseExpr(_, _), ExprRest(_, _), ParseTerm(_, _), TermRest(_, _)
RECURSIVE ParsePower(_, _), PowerRest(_, _), ParseAtom(_, _), RootRest(_, _)
RECURSIVE RootsClosed(_, _, _)

\* root '(' expr . ',' expr ')' after its first expression a
RootRest(t, a) ==
    IF a.p = 0 \/ TokAt(t, a.p) # "," THEN Syntax
    ELSE Closed(t, Join("root", a, ParseExpr(t, a.p + 1)))

\* fact '(' expr . ')' after its expression a
FactRest(t, a) ==
    IF a.p = 0 THEN Syntax ELSE Closed(t, Parsed(Node("fact", 0, a.v, Nil), a.p))

\* atom: NUMBER | '(' expr ')' | fact '(' expr ')' | root '(' expr ',' expr ')'
ParseAtom(t, i) ==
    IF TokAt(t, i) = "num" THEN Parsed(Node("num", t[i].n, Nil, Nil), i + 1)
    ELSE IF TokAt(t, i) = "(" THEN Closed(t, ParseExpr(t, i + 1))
    ELSE IF TokAt(t, i + 1) # "(" THEN Syntax
    ELSE CASE TokAt(t, i) = "fact" -> FactRest(t, ParseExpr(t, i + 2))
           [] TokAt(t, i) = "root" -> RootRest(t, ParseExpr(t, i + 2))
           [] TokAt(t, i) \notin {"fact", "root"} -> Syntax

\* power: atom ['**' power]  (right associative, binds tightest)
PowerRest(t, a) ==
    IF a.p = 0 THEN Syntax
    ELSE IF TokAt(t, a.p) # "**" THEN a
    ELSE Join("**", a, ParsePower(t, a.p + 1))

ParsePower(t, i) == PowerRest(t, ParseAtom(t, i))

\* term: power (('*' | '/') power)*  (left associative)
TermRest(t, a) ==
    IF a.p = 0 THEN Syntax
    ELSE IF TokAt(t, a.p) \notin {"*", "/"} THEN a
    ELSE TermRest(t, Join(TokAt(t, a.p), a, ParsePower(t, a.p + 1)))

ParseTerm(t, i) == TermRest(t, ParsePower(t, i))

\* expr: term (('+' | '-') term)*  (left associative)
ExprRest(t, a) ==
    IF a.p = 0 THEN Syntax
    ELSE IF TokAt(t, a.p) \notin {"+", "-"} THEN a
    ELSE ExprRest(t, Join(TokAt(t, a.p), a, ParseTerm(t, a.p + 1)))

\* How many times "root (" stands at place i: the calls of root that open
\* there, one within the first argument of the other.
RootsAt(t, i) ==
    IF TokAt(t, i) # "root" THEN 0
    ELSE Largest({m \in 0..Len(t) :
                     \A j \in 1..m : /\ TokAt(t, i + 2 * j - 2) = "root"
                                     /\ TokAt(t, i + 2 * j - 1) = "("})

\* The expression that begins with the atom read: its power, its term and
\* the terms after it.
ExprAfter(t, atom) ==
    IF atom.p = 0 THEN Syntax ELSE ExprRest(t, TermRest(t, PowerRest(t, atom)))

\* The expression read at place i, where m calls of root open, from the
\* expression a read inside them: each call is closed in turn, the innermost
\* first, and the expression it begins is read to its end.
RootsClosed(t, a, m) ==
    IF a.p = 0 \/ m = 0 THEN a
    ELSE RootsClosed(t, ExprAfter(t, RootRest(t, a)), m - 1)

\* expr at place i: the expression after its first atom, the calls of root
\* that open at i being closed from the innermost.
ParseExpr(t, i) ==
    IF TokAt(t, i) = "root"
    THEN RootsClosed(t, ExprAfter(t, ParseAtom(t, i + 2 * RootsAt(t, i))), RootsAt(t, i))
    ELSE ExprAfter(t, ParseAtom(t, i))

\* Python evaluates the operands left to right and then applies the
\* operator: the first exception raised is the one that leaves eval.
Apply(op, a, b) ==
    IF IsErr(a) THEN a
    ELSE IF op = "fact" THEN fact(a)
    ELSE IF IsErr(b) THEN b
    ELSE CASE op = "+" -> PyAdd(a, b)
           [] op = "-" -> PySub(a, b)
           [] op = "*" -> PyMul(a, b)
           [] op = "/" -> PyDiv(a, b)
           [] op = "**" -> PyPow(a, b)
           [] op = "root" -> root(a, b)

\* The value of a syntax tree, or Err of the exception raised.
RECURSIVE Run(_)
Run(node) ==
    IF node.op = "num" THEN IntVal(node.n)
    ELSE Apply(node.op, Run(node.a), IF node.op = "fact" THEN Beyond ELSE Run(node.b))

\* The value of a text parsed to r.
RunParsed(t, r) == IF r.p # Len(t) + 1 THEN Err("SyntaxError") ELSE Run(r.v)

\* eval(text): the value, or Err of the exception raised. The empty text
\* does not parse.
PyEval(t) == IF t = <<>> THEN Err("SyntaxError") ELSE RunParsed(t, ParseExpr(t, 1))

\* ------------------------------------------------------- digit extractor
DigitChars == <<"0", "1", "2", "3", "4", "5", "6", "7", "8", "9">>

IsDigitChar(c) == \E i \in 1..Len(DigitChars) : DigitChars[i] = c

\* A digit character read one too high (mutant of DigitOf).
DigitOfShifted(c) == CHOOSE i \in 1..Len(DigitChars) : DigitChars[i] = c

\* int(d) of one digit character.
DigitOf(c) == (CHOOSE i \in 1..Len(DigitChars) : DigitChars[i] = c) - 1

\* [int(d) for d in found]
IntsOf(found) == [i \in 1..Len(found) |-> DigitOf(found[i])]

\* [int(d) for d in re.findall(r'\d', date_string)]
ExtractDigits(date_string) == IntsOf(SelectSeq(date_string, IsDigitChar))

\* The error __init__ raises below 3 digits.
InsufficientDigits == "ValueError: Date must contain at least 3 digits"

\* ---------------------------------------------------- partition generator
\* int(s[start:start+length]) for a slice of digits (1-based from, to).
RECURSIVE IntOf(_, _, _)
IntOf(s, from, to) ==
    IF to < from THEN 0 ELSE IntOf(s, from, to - 1) * 10 + s[to]

\* Tests that also skip a length leaving exactly as many digits as the
\* remaining groups can hold (mutant of Skipped).
SkippedWhenFull(remaining_digits, current_groups, next_num, max_groups) ==
    \/ (remaining_digits > 0 /\ (max_groups - current_groups) < 1)
    \/ remaining_digits >= (max_groups - current_groups) * 4
    \/ next_num > 9999

\* The three "continue" tests of the loop over length: remaining_digits and
\* current_groups as the code computes them, and next_num.
Skipped(remaining_digits, current_groups, next_num, max_groups) ==
    \/ (remaining_digits > 0 /\ (max_groups - current_groups) < 1)
    \/ remaining_digits > (max_groups - current_groups) * 4
    \/ next_num > 9999

\* generate_splits: the partitions it appends, in the order it appends
\* them; start_pos counts the digits consumed (0-based as in the code), and
\* length runs from `length` to max_length.
RECURSIVE generate_splits(_, _, _, _, _)
generate_splits(s, current_partition, start_pos, length, max_groups) ==
    IF start_pos = Len(s) THEN
        IF Len(current_partition) >= 2 /\ Len(current_partition) <= max_groups
        THEN <<current_partition>> ELSE <<>>
    ELSE IF length > Min(4, Len(s) - start_pos) THEN <<>>
    ELSE (IF Skipped(Len(s) - start_pos - length, Len(current_partition) + 1,
                     IntOf(s, start_pos + 1, start_pos + length), max_groups)
          THEN <<>>
          ELSE generate_splits(s, Append(current_partition,
                                         IntOf(s, start_pos + 1, start_pos + length)),
                               start_pos + length, 1, max_groups))
         \o generate_splits(s, current_partition, start_pos, length + 1, max_groups)

\* Date patterns with a year of five digits beside the three of the code
\* (mutant of DatePatterns).
DatePatternsWithLongYear(d) ==
    IF Len(d) # 8 THEN <<>>
    ELSE << <<IntOf(d, 1, 2), IntOf(d, 3, 4), IntOf(d, 5, 8)>>,
            <<IntOf(d, 1, 1), IntOf(d, 2, 3), IntOf(d, 4, 5), IntOf(d, 6, 8)>>,
            <<IntOf(d, 1, 1), IntOf(d, 2, 4), IntOf(d, 5, 8)>>,
            <<IntOf(d, 1, 1), IntOf(d, 2, 3), IntOf(d, 4, 8)>> >>

\* The date patterns added for 8 digits.
DatePatterns(d) ==
    IF Len(d) # 8 THEN <<>>
    ELSE << <<IntOf(d, 1, 2), IntOf(d, 3, 4), IntOf(d, 5, 8)>>,
            <<IntOf(d, 1, 1), IntOf(d, 2, 3), IntOf(d, 4, 5), IntOf(d, 6, 8)>>,
            <<IntOf(d, 1, 1), IntOf(d, 2, 4), IntOf(d, 5, 8)>> >>

\* "Remove duplicates": the first occurrence of each partition, in order.
Indices(ps) == [i \in 1..Len(ps) |-> i]

IsFirst(ps, i) == \A j \in 1..(i - 1) : ps[j] # ps[i]

Picked(ps, indices) == [k \in 1..Len(indices) |-> ps[indices[k]]]

Unique(ps) == Picked(ps, SelectSeq(Indices(ps), LAMBDA i : IsFirst(ps, i)))

\* key=lambda p: (len(p), -sum(1 for x in p if x > 9))
CountMulti(p) == Cardinality({i \in 1..Len(p) : p[i] > 9})

\* The partitions of one key, in the order of the list.
WithKey(ps, length, multi) ==
    SelectSeq(ps, LAMBDA p : Len(p) = length /\ CountMulti(p) = multi)

\* list.sort is stable: the partitions by increasing key, those of one key
\* in the order they had. The keys from (length, -multi) on, for partitions
\* of at most max_length numbers.
RECURSIVE SortPartitions(_, _, _, _)
SortPartitions(ps, length, multi, max_length) ==
    IF length > max_length THEN <<>>
    ELSE IF multi < 0 THEN SortPartitions(ps, length + 1, length + 1, max_length)
    ELSE WithKey(ps, length, multi)
         \o SortPartitions(ps, length, multi - 1, max_length)

generate_digit_partitions(digits, max_groups) ==
    IF Len(digits) <= 1 THEN << digits >>
    ELSE SortPartitions(Unique(generate_splits(digits, <<>>, 0, 1, max_groups)
                               \o << digits >> \o DatePatterns(digits)),
                        1, 1, Len(digits))

\* The operators without '+' (mutant of OPERATORS).
OperatorsWithoutPlus == <<"-", "*", "/", "^", "root">>

\* ------------------------------------------------- tokens and operators
OPERATORS == <<"+", "-", "*", "/", "^", "root">>

\* str(d) and f"fact({d})" as token texts.
PlainToken(d) == <<Num(d)>>

FactToken(d) == <<Sym("fact"), Sym("("), Num(d), Sym(")")>>

\* The absent result of the evaluators.
None == Val("none", 0, 1, 0, 0, 1, 1, "")

IsNumber(v) == v.k \in {"rat", "surd"}

\* itertools.product(OPERATORS, repeat=k): k = 0 gives the one empty tuple,
\* and the i-th tuple (from 1) varies its last position fastest.
NumOperatorCombinations(k) == IPow(Len(OPERATORS), k)

RECURSIVE OperatorCombination(_, _)
OperatorCombination(k, i) ==
    IF k = 0 THEN <<>>
    ELSE Append(OperatorCombination(k - 1, ((i - 1) \div Len(OPERATORS)) + 1),
                OPERATORS[((i - 1) % Len(OPERATORS)) + 1])

\* itertools.product(*token_options): the number of choices of the
\* positions after j, and the i-th choice (from 1).
RECURSIVE Weight(_, _)
Weight(token_options, j) ==
    IF j >= Len(token_options) THEN 1
    ELSE Len(token_options[j + 1]) * Weight(token_options, j + 1)

NumTokenChoices(token_options) == Weight(token_options, 0)

TokenChoice(token_options, i) ==
    [j \in 1..Len(token_options) |->
        token_options[j][(((i - 1) \div Weight(token_options, j))
                          % Len(token_options[j])) + 1]]

\* -------------------------------------------------- expression builders
\* The text after the first i operators, built as evaluate_expression,
\* format_expression and the default strategy build it; pw is the spelling
\* of the power operator ("**" or "^"), start the text before operators[from].
RECURSIVE Chain(_, _, _, _, _, _)
Chain(start, from, tokens, operators, i, pw) ==
    IF i < from THEN start
    ELSE IF operators[i] = "^"
         THEN Chain(start, from, tokens, operators, i - 1, pw) \o <<Sym(pw)>>
              \o tokens[i + 1]
    ELSE IF operators[i] = "root"
         THEN <<Sym("root"), Sym("(")>>
              \o Chain(start, from, tokens, operators, i - 1, pw) \o <<Sym(",")>>
              \o tokens[i + 1] \o <<Sym(")")>>
    ELSE Chain(start, from, tokens, operators, i - 1, pw) \o <<Sym(operators[i])>>
         \o tokens[i + 1]

BaseExpr(tokens, operators, pw) ==
    Chain(tokens[1], 1, tokens, operators, Len(operators), pw)

\* f"({token_choice[0]} {operators[0]} {token_choice[1]})": the operator is
\* pasted as it is spelled in OPERATORS.
FirstGroup(tokens, operators) ==
    <<Sym("(")>> \o tokens[1] \o <<Sym(operators[1])>> \o tokens[2] \o <<Sym(")")>>

\* Left-to-right full parenthesization.
RECURSIVE ParenChain(_, _, _)
ParenChain(tokens, operators, i) ==
    IF i < 2 THEN FirstGroup(tokens, operators)
    ELSE IF operators[i] = "root"
         THEN <<Sym("root"), Sym("(")>> \o ParenChain(tokens, operators, i - 1)
              \o <<Sym(",")>> \o tokens[i + 1] \o <<Sym(")")>>
    ELSE IF operators[i] = "^"
         THEN <<Sym("(")>> \o ParenChain(tokens, operators, i - 1) \o <<Sym("**")>>
              \o tokens[i + 1] \o <<Sym(")")>>
    ELSE <<Sym("(")>> \o ParenChain(tokens, operators, i - 1)
         \o <<Sym(operators[i])>> \o tokens[i + 1] \o <<Sym(")")>>

ParenExpr(tokens, operators) == ParenChain(tokens, operators, Len(operators))

\* "Group first two only".
GroupFirstTwo(tokens, operators) ==
    Chain(FirstGroup(tokens, operators), 2, tokens, operators, Len(operators), "**")

\* "Group last two only": operators pasted as spelled, the last operator
\* and the last-but-one token used twice.
RECURSIVE RawChain(_, _, _)
RawChain(tokens, operators, i) ==
    IF i = 0 THEN tokens[1]
    ELSE RawChain(tokens, operators, i - 1) \o <<Sym(operators[i])>> \o tokens[i + 1]

GroupLastTwo(tokens, operators) ==
    RawChain(tokens, operators, Len(operators) - 1)
    \o <<Sym(operators[Len(operators)]), Sym("(")>> \o tokens[Len(tokens) - 1]
    \o <<Sym(operators[Len(operators)])>> \o tokens[Len(tokens)] \o <<Sym(")")>>

\* expression.replace('^', '**')
ReplaceCaret(expression) ==
    [i \in 1..Len(expression) |->
        IF expression[i] = Sym("^") THEN Sym("**") ELSE expression[i]]

\* -------------------------------------------------------- the evaluators
\* What the two evaluators catch.
BasicCaught ==
    {"ZeroDivisionError", "OverflowError", "ValueError", "TypeError", "SyntaxError"}

AdvancedCaught ==
    {"ZeroDivisionError", "OverflowError", "ValueError", "SyntaxError"}

\* An outcome that returns whatever eval gave, number or not (mutant of
\* Outcome).
OutcomeUnchecked(result, caught) ==
    IF IsErr(result) THEN (IF result.e \in caught THEN None ELSE result)
    ELSE result

\* The outcome of the try block: a caught exception and a non-numeric
\* result give None, an uncaught exception propagates, and a value outside
\* the arithmetic range of the model is left out as None is.
Outcome(result, caught) ==
    IF IsErr(result) THEN (IF result.e \in caught THEN None ELSE result)
    ELSE IF IsNumber(result) THEN result
    ELSE None

\* BirthdayEquationGenerator.evaluate_expression
evaluate_expression(digits, operators) ==
    IF Len(operators) # Len(digits) - 1 THEN None
    ELSE Outcome(PyEval(BaseExpr(digits, operators, "**")), BasicCaught)

\* BirthdayEquationGenerator.format_expression
format_expression(digits, operators) ==
    IF Len(operators) # Len(digits) - 1 THEN <<>>
    ELSE BaseExpr(digits, operators, "^")

\* AdvancedBirthdayEquationGenerator.safe_eval
safe_eval(expression) == Outcome(PyEval(ReplaceCaret(expression)), AdvancedCaught)

\* The tolerance 1e-10 of the searches, as 1 / (ToleranceRoot * ToleranceRoot).
ToleranceRoot == 100000

\* |diff| <= 1 / tolroot^2 for a rational diff.
Small(diff, tolroot) ==
    diff.k = "rat" /\ Abs(diff.n) <= (diff.d \div tolroot) \div tolroot

\* abs(left - right) <= tolerance. Two numbers the model holds exactly are
\* within the tolerance iff their difference n/d has |n| * 10^10 <= d; a
\* difference outside the arithmetic range has a denominator below 10^10 and
\* a non-zero numerator, and distinct irrational values are taken to differ
\* by more than the tolerance.
WithinTolerance(left, right, tolroot) ==
    \/ left = right
    \/ /\ left.k = "rat" /\ right.k = "rat"
       /\ Small(RatAdd(left, RatNeg(right)), tolroot)

\* ------------------------------------------------- the basic search loops
\* token_options_for(digits_list)
token_options_for(digits_list) ==
    [i \in 1..Len(digits_list) |->
        <<PlainToken(digits_list[i]), FactToken(digits_list[i])>>]

\* The digits as find_equations_with_grouping hands them to the evaluator,
\* which takes str() of each.
DigitTokens(digits_list) ==
    [i \in 1..Len(digits_list) |-> PlainToken(digits_list[i])]

\* Parentheses around every side, a single digit too (mutant of Wrapped).
WrappedWhateverItsLength(expr, side, grouping) ==
    IF grouping THEN <<Sym("(")>> \o expr \o <<Sym(")")>> ELSE expr

\* f"({expr})" around a side of more than one digit.
Wrapped(expr, side, grouping) ==
    IF grouping /\ Len(side) > 1 THEN <<Sym("(")>> \o expr \o <<Sym(")")>>
    ELSE expr

\* Agree without the comparison of the two results (mutant of Agree).
AgreeWithoutTolerance(left_result, right_result, tolerance) ==
    /\ IsNumber(left_result)
    /\ IsNumber(right_result)

\* The test of the innermost loop on the two results.
Agree(left_result, right_result, tolerance) ==
    /\ IsNumber(left_result)
    /\ IsNumber(right_result)
    /\ WithinTolerance(left_result, right_result, tolerance)

\* The i-th item of the operator combinations of a side, and its result.
OpsOf(tokens, i) == OperatorCombination(Len(tokens) - 1, i)

ResultOf(tokens, i) == evaluate_expression(tokens, OpsOf(tokens, i))

\* The tuple the innermost loop appends for the l-th left and the r-th
\* right operator combination.
Equation(left_tokens, l, right_tokens, r, grouping) ==
    <<Wrapped(format_expression(left_tokens, OpsOf(left_tokens, l)), left_tokens,
              grouping),
      Wrapped(format_expression(right_tokens, OpsOf(right_tokens, r)), right_tokens,
              grouping),
      ResultOf(left_tokens, l)>>

\* A side of one digit has the list [()] (or [[]]), which every pass walks
\* again; a longer side has ONE itertools.product iterator per split point,
\* which resumes after the items already taken from it.
IsList(tokens) == ~(Len(tokens) > 1)

FirstItem(tokens, pos) == IF IsList(tokens) THEN 1 ELSE pos + 1

NumItems(tokens) == NumOperatorCombinations(Len(tokens) - 1)

\* The first left item meets what is left of the right side: the pairs
\* visited, and whether each passes the test.
FirstRow(left_tokens, right_tokens, left_first, right_first, first_left, tolerance) ==
    IF left_first <= NumItems(left_tokens)
    THEN [k \in 1..(NumItems(right_tokens) - right_first + 1) |->
             [l |-> left_first, r |-> right_first + k - 1,
              match |-> Agree(first_left, ResultOf(right_tokens, right_first + k - 1),
                              tolerance)]]
    ELSE <<>>

\* The later left items meet the right list again, or nothing of an
\* exhausted right iterator.
LaterRows(left_tokens, right_tokens, left_first, only_right, tolerance) ==
    IF IsList(right_tokens)
    THEN [k \in 1..(NumItems(left_tokens) - left_first) |->
             [l |-> left_first + k, r |-> 1,
              match |-> Agree(ResultOf(left_tokens, left_first + k), only_right,
                              tolerance)]]
    ELSE <<>>

IsMatch(c) == c.match

\* The equations appended for the pairs that pass the test.
Appended(left_tokens, right_tokens, matching, grouping) ==
    [i \in 1..Len(matching) |->
        Equation(left_tokens, matching[i].l, right_tokens, matching[i].r, grouping)]

\* The two loops from the items left_first and right_first on.
LoopsFrom(left_tokens, right_tokens, left_first, right_first, tolerance, grouping) ==
    Appended(left_tokens, right_tokens,
             SelectSeq(FirstRow(left_tokens, right_tokens, left_first, right_first,
                                ResultOf(left_tokens, left_first), tolerance)
                       \o LaterRows(left_tokens, right_tokens, left_first,
                                    ResultOf(right_tokens, 1), tolerance),
                       IsMatch),
             grouping)

\* for left_ops in left_operator_combinations:
\*     for right_ops in right_operator_combinations: ...
\* left_pos and right_pos are the items already taken from the iterators.
InnerLoops(left_tokens, right_tokens, left_pos, right_pos, tolerance, grouping) ==
    [equations |-> LoopsFrom(left_tokens, right_tokens,
                             FirstItem(left_tokens, left_pos),
                             FirstItem(right_tokens, right_pos), tolerance, grouping),
     left_pos  |-> IF IsList(left_tokens) THEN left_pos ELSE NumItems(left_tokens),
     right_pos |-> IF IsList(right_tokens)
                      \/ ~(FirstItem(left_tokens, left_pos) <= NumItems(left_tokens))
                   THEN right_pos ELSE NumItems(right_tokens)]

\* Token options that offer the factorial of every number (mutant of
\* TokenOptions).
TokenOptionsWithEveryFactorial(numbers) ==
    [i \in 1..Len(numbers) |-> <<PlainToken(numbers[i]), FactToken(numbers[i])>>]

\* ------------------------------------------ the advanced expression sets
\* token_options of generate_all_expressions and generate_with_custom_grouping
TokenOptions(numbers) ==
    [i \in 1..Len(numbers) |->
        IF 0 <= numbers[i] /\ numbers[i] <= 9
        THEN <<PlainToken(numbers[i]), FactToken(numbers[i])>>
        ELSE <<PlainToken(numbers[i])>>]

\* All (token_choice, operators) pairs of the two nested product loops.
ChoicesOf(token_options) ==
    {<<TokenChoice(token_options, i), OperatorCombination(Len(token_options) - 1, j)>> :
        i \in 1..NumTokenChoices(token_options),
        j \in 1..NumOperatorCombinations(Len(token_options) - 1)}

Choices(numbers) == ChoicesOf(TokenOptions(numbers))

\* result = self.safe_eval(expr) for each text; add (expr, result) unless
\* None. An exception safe_eval lets through leaves the generator.
Evaluated(texts) == {<<t, safe_eval(t)>> : t \in texts}

Errors(evaluated) == {e[2].e : e \in {x \in evaluated : IsErr(x[2])}}

Raised(evaluated) ==
    IF Errors(evaluated) = {} THEN "" ELSE CHOOSE e \in Errors(evaluated) : TRUE

Numbers(evaluated) == {e \in evaluated : IsNumber(e[2])}

\* What a generator gives: the exception that left it ("" for none), and
\* the expressions it returns otherwise; guarded are the results of the
\* texts evaluated under "except Exception: pass".
Generated(evaluated, guarded) ==
    [raised |-> Raised(evaluated), exprs |-> Numbers(evaluated) \cup Numbers(guarded)]

\* The texts of the strategies of generate_all_expressions.
DefaultTexts(numbers) ==
    UNION {{BaseExpr(c[1], c[2], "**")}
           \cup (IF Len(numbers) > 2 THEN {ParenExpr(c[1], c[2])} ELSE {}) :
           c \in Choices(numbers)}

\* The single number with its literal only (mutant of SingleNumber).
SingleNumberPlainOnly(num) ==
    [raised |-> "", exprs |-> {<<PlainToken(num), IntVal(num)>>}]

\* The single number whose literal also carries the next number's value
\* (mutant of SingleNumber).
SingleNumberTwoValues(num) ==
    [raised |-> "",
     exprs  |-> {<<PlainToken(num), IntVal(num)>>,
                 <<PlainToken(num), IntVal(num + 1)>>}]

\* The single number: its literal, and the factorial of a single digit.
SingleNumber(num) ==
    [raised |-> "",
     exprs  |-> {<<PlainToken(num), IntVal(num)>>}
                \cup (IF 0 <= num /\ num <= 9 /\ Factorial(num) <= 1000000
                      THEN {<<FactToken(num), IntVal(Factorial(num))>>}
                      ELSE {})]

generate_all_expressions(numbers) ==
    IF Len(numbers) = 1 THEN SingleNumber(numbers[1])
    ELSE Generated(Evaluated(DefaultTexts(numbers)), {})

\* Strategies 2 and 3 only, without the flat text of strategy 1 (mutant of
\* CustomTexts).
CustomTextsWithoutFlat(numbers) ==
    UNION {{ParenExpr(c[1], c[2]), GroupFirstTwo(c[1], c[2])} :
           c \in Choices(numbers)}

\* The texts of strategies 1 to 3 of generate_with_custom_grouping.
CustomTexts(numbers) ==
    UNION {{BaseExpr(c[1], c[2], "**"), ParenExpr(c[1], c[2]),
            GroupFirstTwo(c[1], c[2])} : c \in Choices(numbers)}

\* The texts of strategy 4, which runs under "except Exception: pass".
GuardedTexts(numbers) == {GroupLastTwo(c[1], c[2]) : c \in Choices(numbers)}

generate_with_custom_grouping(numbers) ==
    IF Len(numbers) <= 2 THEN generate_all_expressions(numbers)
    ELSE Generated(Evaluated(CustomTexts(numbers)), Evaluated(GuardedTexts(numbers)))

\* for left_expr, left_val in left_expressions:
\*     for right_expr, right_val in right_expressions: ...
Matches(left_expressions, right_expressions, tolerance) ==
    {<<x[1][1], x[2][1], x[1][2]>> :
        x \in {y \in left_expressions \X right_expressions :
                 WithinTolerance(y[1][2], y[2][2], tolerance)}}

\* ------------------------------------------------------ the state machine
\* Most calls made on one generator, and the largest max_groups passed.
MaxCalls == 2
MaxGroups == 6

VARIABLES
    input,        \* the string handed to the constructor
    engine,       \* "basic" | "advanced": the class constructed
    status,       \* "new" | "ready" | "failed"
    error,        \* the error the constructor raised, or ""
    digits,       \* self.digits
    date_string,  \* self.date_string
    call,         \* the method running, or "none"
    loc,          \* the local variables of the running method
    results,      \* per method, what its calls returned, in call order
    ncalls,       \* calls made so far
    \* ---- the windowed front ends (birthday_equation_gui.py, enhanced_gui.py)
    app,                 \* "none" | "basic_gui" | "enhanced_gui": the window open
    date_var,            \* self.date_var: the text of the date entry
    generator_type_var,  \* self.generator_type_var ("basic" in the basic GUI)
    generate_btn,        \* state of self.generate_btn
    result_btns,         \* state of preview_btn and save_btn (basic GUI), of the
                         \* three export buttons (enhanced GUI)
    current_equations,   \* self.current_equations
    current_date,        \* self.current_date
    current_digits,      \* self.current_digits (enhanced GUI)
    threads,             \* the worker threads started, in start order
    after_queue,         \* the callbacks scheduled with root.after(0, ...), in order
    displayed            \* what was last written to the preview, to the results
                         \* text or to a file

gui_vars == <<app, date_var, generator_type_var, generate_btn, result_btns,
              current_equations, current_date, current_digits, threads,
              after_queue, displayed>>

vars == <<input, engine, status, error, digits, date_string, call, loc, results,
          ncalls, gui_vars>>

Engines == {"basic", "advanced"}

Methods == {"generate_equations", "find_equations_with_grouping",
            "generate_digit_partitions", "find_matching_equations",
            "find_creative_equations", "evaluate_expression", "safe_eval",
            "generate_all_expressions", "generate_with_custom_grouping"}

\* Input strings: every string over the digits 0..MaxDigit and a separator
\* up to MaxInputLen characters, and some longer ones.
Chars == {DigitChars[d + 1] : d \in 0..MaxDigit} \cup {"/"}

Strings(n) == UNION {[1..k -> Chars] : k \in 0..n}

LongerInputs ==
    { <<"1", "/", "2", "/", "3">>, <<"1", "2", "2", "2">>, <<"0", "1", "2", "2", "0">> }

Inputs == Strings(MaxInputLen) \cup LongerInputs

NoLocals == [none |-> TRUE]

\* The front end before any generation, or no window at all ("none").
Nothing == [none |-> TRUE]

Window(kind, text) ==
    /\ app = kind
    /\ date_var = text
    /\ generator_type_var = "basic"
    /\ generate_btn = "normal"
    /\ result_btns = "disabled"
    /\ current_equations = {}
    /\ current_date = <<>>
    /\ current_digits = <<>>
    /\ threads = <<>>
    /\ after_queue = <<>>
    /\ displayed = Nothing

InitWith(inputs, engines) ==
    /\ Window("none", <<>>)
    /\ input \in inputs
    /\ engine \in engines
    /\ status = "new"
    /\ error = ""
    /\ digits = <<>>
    /\ date_string = <<>>
    /\ call = "none"
    /\ loc = NoLocals
    /\ results = [m \in Methods |-> <<>>]
    /\ ncalls = 0

Init == InitWith(Inputs, Engines)

\* The end of an __init__ that asks for two digits only (mutant of
\* Constructed).
ConstructedFromTwo(found) ==
    IF Len(found) < 2
    THEN /\ status' = "failed"
         /\ error' = InsufficientDigits
         /\ UNCHANGED <<digits, date_string>>
    ELSE /\ status' = "ready"
         /\ digits' = found
         /\ date_string' = input
         /\ UNCHANGED error

\* The end of __init__ with the digits found: fewer than three raise the
\* error, so that no generator comes to exist.
Constructed(found) ==
    IF Len(found) < 3
    THEN /\ status' = "failed"
         /\ error' = InsufficientDigits
         /\ UNCHANGED <<digits, date_string>>
    ELSE /\ status' = "ready"
         /\ digits' = found
         /\ date_string' = input
         /\ UNCHANGED error

\* __init__ of either class.
Initialize ==
    /\ status = "new"
    /\ Constructed(ExtractDigits(input))
    /\ UNCHANGED <<input, engine, call, loc, results, ncalls, gui_vars>>

BasicInit == engine = "basic" /\ Initialize

AdvancedInit == engine = "advanced" /\ Initialize

\* Calls explored on one generator: MaxCalls on the inputs of the exhaustive
\* range, one on a longer input.
CallBudget == IF Len(input) > MaxInputLen THEN 1 ELSE MaxCalls

\* A method can be called on a generator that exists and is not running one.
Idle == status = "ready" /\ call = "none" /\ ncalls < CallBudget

Begin(method, locals) ==
    /\ call' = method
    /\ loc' = locals
    /\ ncalls' = ncalls + 1
    /\ UNCHANGED <<input, engine, status, error, digits, date_string, results,
                   gui_vars>>

Finish(method, raised, args, value) ==
    /\ call' = "none"
    /\ loc' = NoLocals
    /\ results' = [results EXCEPT
                     ![method] = Append(@, [raised |-> raised, args |-> args,
                                            value |-> value])]
    /\ UNCHANGED <<input, engine, status, error, digits, date_string, ncalls,
                   gui_vars>>

Continue(locals) ==
    /\ loc' = locals
    /\ UNCHANGED <<input, engine, status, error, digits, date_string, call, results,
                   ncalls, gui_vars>>

\* A method that runs in one step and leaves the first partition it returns
\* in self.digits (mutant of Called).
CalledOverwritingDigits(method, raised, args, value) ==
    /\ results' = [results EXCEPT
                     ![method] = Append(@, [raised |-> raised, args |-> args,
                                            value |-> value])]
    /\ ncalls' = ncalls + 1
    /\ digits' = IF method = "generate_digit_partitions" THEN value[1] ELSE digits
    /\ UNCHANGED <<input, engine, status, error, date_string, call, loc, gui_vars>>

\* A method that runs in one step.
Called(method, raised, args, value) ==
    /\ results' = [results EXCEPT
                     ![method] = Append(@, [raised |-> raised, args |-> args,
                                            value |-> value])]
    /\ ncalls' = ncalls + 1
    /\ UNCHANGED <<input, engine, status, error, digits, date_string, call, loc,
                   gui_vars>>

\* A call of generate_equations whose right operator iterator is kept from
\* the calls made before (mutant of GenerateEquationsCall).
GenerateEquationsCallKeepingIterators ==
    /\ engine = "basic" /\ Idle
    /\ Begin("generate_equations",
             [tolerance |-> ToleranceRoot, equations |-> <<>>, split_point |-> 1,
              left_choice |-> 1, left_pos |-> 0, right_pos |-> ncalls])

\* ---- BirthdayEquationGenerator.generate_equations
GenerateEquationsCall ==
    /\ engine = "basic" /\ Idle
    /\ Begin("generate_equations",
             [tolerance |-> ToleranceRoot, equations |-> <<>>, split_point |-> 1,
              left_choice |-> 1, left_pos |-> 0, right_pos |-> 0])

\* The equations so far with those of one more pass of the operator loops,
\* and where that pass left the two iterators.
After(so_far, body) ==
    [equations |-> so_far.equations \o body.equations,
     left_pos  |-> body.left_pos,
     right_pos |-> body.right_pos]

\* for right_tokens in itertools.product(*right_token_options): the passes
\* of the first-th to the last-th right token choice under one left_tokens;
\* so_far holds the equations appended by the earlier passes and where they
\* left the two iterators. The passes are made in order, the first half of
\* them and then the rest.
RECURSIVE RightTokensPasses(_, _, _, _, _, _), RightTokensNext(_, _, _, _, _, _)
RightTokensPasses(left_tokens, right_token_options, first, last, so_far, tolerance) ==
    IF first > last THEN so_far
    ELSE IF first = last
    THEN After(so_far,
               InnerLoops(left_tokens, TokenChoice(right_token_options, first),
                          so_far.left_pos, so_far.right_pos, tolerance, FALSE))
    ELSE RightTokensNext(left_tokens, right_token_options,
                         (first + last) \div 2 + 1, last,
                         RightTokensPasses(left_tokens, right_token_options, first,
                                           (first + last) \div 2, so_far, tolerance),
                         tolerance)

RightTokensNext(left_tokens, right_token_options, first, last, after, tolerance) ==
    IF after.left_pos >= 0
    THEN RightTokensPasses(left_tokens, right_token_options, first, last, after,
                           tolerance)
    ELSE after

\* The passes from the k-th right token choice on: the k-th, which is the
\* one that finds the iterators of the split point unused, and the rest.
RightTokensLoop(left_tokens, right_token_options, k, so_far, tolerance) ==
    RightTokensNext(left_tokens, right_token_options, k + 1,
                    NumTokenChoices(right_token_options),
                    RightTokensPasses(left_tokens, right_token_options, k,
                                      Min(k, NumTokenChoices(right_token_options)),
                                      so_far, tolerance),
                    tolerance)

\* The locals after the pass `body` of "for left_tokens in ...", the last
\* one of its split point or not.
LeftTokensDone(body, last) ==
    Continue([loc EXCEPT
                !.equations = @ \o body.equations,
                !.left_choice = IF last THEN 1 ELSE @ + 1,
                !.split_point = IF last THEN @ + 1 ELSE @,
                !.left_pos = IF last THEN 0 ELSE body.left_pos,
                !.right_pos = IF last THEN 0 ELSE body.right_pos])

\* The pass of the loc.left_choice-th left token choice.
LeftTokensPass(left_token_options, right_token_options) ==
    LeftTokensDone(RightTokensLoop(TokenChoice(left_token_options, loc.left_choice),
                                   right_token_options, 1,
                                   [equations |-> <<>>, left_pos |-> loc.left_pos,
                                    right_pos |-> loc.right_pos],
                                   loc.tolerance),
                   loc.left_choice = NumTokenChoices(left_token_options))

\* One pass of "for left_tokens in ...": a left token choice of the current
\* split point, with every right token choice and the operator loops.
GenerateEquationsStep ==
    /\ call = "generate_equations"
    /\ loc.split_point < Len(digits)
    /\ LeftTokensPass(token_options_for(SubSeq(digits, 1, loc.split_point)),
                      token_options_for(SubSeq(digits, loc.split_point + 1,
                                               Len(digits))))

GenerateEquationsReturn ==
    /\ call = "generate_equations"
    /\ loc.split_point = Len(digits)
    /\ Finish("generate_equations", "", loc.tolerance, loc.equations)

\* ---- BirthdayEquationGenerator.find_equations_with_grouping
GroupingCall ==
    /\ engine = "basic" /\ Idle
    /\ Begin("find_equations_with_grouping",
             [tolerance |-> ToleranceRoot, equations |-> <<>>, split_point |-> 1])

\* The locals after the operator loops of one split point.
SplitPointDone(body) ==
    Continue([loc EXCEPT !.equations = @ \o body.equations, !.split_point = @ + 1])

\* One split point with its two operator loops.
GroupingStep ==
    /\ call = "find_equations_with_grouping"
    /\ loc.split_point < Len(digits)
    /\ SplitPointDone(InnerLoops(DigitTokens(SubSeq(digits, 1, loc.split_point)),
                                 DigitTokens(SubSeq(digits, loc.split_point + 1,
                                                    Len(digits))),
                                 0, 0, loc.tolerance, TRUE))

GroupingReturn ==
    /\ call = "find_equations_with_grouping"
    /\ loc.split_point = Len(digits)
    /\ Finish("find_equations_with_grouping", "", loc.tolerance, loc.equations)

\* ---- AdvancedBirthdayEquationGenerator.generate_digit_partitions
GenerateDigitPartitions ==
    /\ engine = "advanced" /\ Idle
    /\ \E max_groups \in 1..MaxGroups :
          Called("generate_digit_partitions", "", max_groups,
                 generate_digit_partitions(digits, max_groups))

\* ---- find_matching_equations and find_creative_equations: the same loops
\* over the partitions and their split points, with their own max_groups and
\* expression generator.
SearchLocals(max_groups) ==
    [tolerance |-> ToleranceRoot, equations |-> EmptyBag,
     partitions |-> generate_digit_partitions(digits, max_groups),
     partition |-> 1, split |-> 1]

Expressions(method, numbers) ==
    IF method = "find_creative_equations"
    THEN generate_with_custom_grouping(numbers)
    ELSE generate_all_expressions(numbers)

\* The two loops over the expressions of the sides of one split, the last
\* split of its partition or not. An exception of an expression generator
\* ends the call.
SplitDone(method, left_expressions, right_expressions, last) ==
    IF left_expressions.raised # ""
    THEN Finish(method, left_expressions.raised, loc.tolerance, EmptyBag)
    ELSE IF right_expressions.raised # ""
    THEN Finish(method, right_expressions.raised, loc.tolerance, EmptyBag)
    ELSE Continue([loc EXCEPT
                     !.equations = @ (+) SetToBag(Matches(left_expressions.exprs,
                                                          right_expressions.exprs,
                                                          loc.tolerance)),
                     !.partition = IF last THEN @ + 1 ELSE @,
                     !.split = IF last THEN 1 ELSE @ + 1])

\* for split in range(1, len(partition)): the loc.split-th pass.
SplitPass(method, partition) ==
    IF loc.split >= Len(partition)
    THEN Continue([loc EXCEPT !.partition = @ + 1, !.split = 1])
    ELSE SplitDone(method,
                   Expressions(method, SubSeq(partition, 1, loc.split)),
                   Expressions(method, SubSeq(partition, loc.split + 1, Len(partition))),
                   loc.split + 1 >= Len(partition))

\* One split of the current partition; a partition whose splits are done
\* gives way to the next.
SearchStep(method) ==
    /\ call = method
    /\ loc.partition <= Len(loc.partitions)
    /\ SplitPass(method, loc.partitions[loc.partition])

SearchReturn(method) ==
    /\ call = method
    /\ loc.partition > Len(loc.partitions)
    /\ Finish(method, "", loc.tolerance, loc.equations)

FindMatchingCall ==
    /\ engine = "advanced" /\ Idle
    /\ Begin("find_matching_equations", SearchLocals(5))

FindMatchingStep == SearchStep("find_matching_equations")

FindMatchingReturn == SearchReturn("find_matching_equations")

FindCreativeCall ==
    /\ engine = "advanced" /\ Idle
    /\ Begin("find_creative_equations", SearchLocals(6))

FindCreativeStep == SearchStep("find_creative_equations")

FindCreativeReturn == SearchReturn("find_creative_equations")

Next ==
    \/ BasicInit
    \/ AdvancedInit
    \/ GenerateEquationsCall
    \/ GenerateEquationsStep
    \/ GenerateEquationsReturn
    \/ GroupingCall
    \/ GroupingStep
    \/ GroupingReturn
    \/ GenerateDigitPartitions
    \/ FindMatchingCall
    \/ FindMatchingStep
    \/ FindMatchingReturn
    \/ FindCreativeCall
    \/ FindCreativeStep
    \/ FindCreativeReturn

Spec == Init /\ [][Next]_vars

\* ---- The date of the examples, searched once by the basic engine.
DateInput == <<"0", "9", "0", "5", "2", "0", "0", "5">>

InitDate == InitWith({DateInput}, {"basic"})

NextDate ==
    \/ BasicInit
    \/ GenerateEquationsCall
    \/ GenerateEquationsStep
    \/ GenerateEquationsReturn

SpecDate == InitDate /\ [][NextDate]_vars

\* ---- The partition generator called on its own, on every string of up to
\* MaxPartitionLen characters over the digits 0..MaxPartitionDigit.
MaxPartitionLen == 8
MaxPartitionDigit == 1

PartitionInputs ==
    UNION {[1..k -> {DigitChars[d + 1] : d \in 0..MaxPartitionDigit}] :
              k \in 0..MaxPartitionLen}

InitPartitions == InitWith(PartitionInputs, {"advanced"})

NextPartitions ==
    \/ AdvancedInit
    \/ GenerateDigitPartitions

SpecPartitions == InitPartitions /\ [][NextPartitions]_vars

\* ---- The two evaluators and the two expression generators called on
\* their own. The evaluators get the texts the searches build: up to
\* MaxEvalLen tokens over the digits 0..MaxEvalDigit and one factorial
\* token, joined by any operators; safe_eval, which takes any string, also
\* gets fact( ) around the texts of two tokens. The generators get the groups
\* of up to MaxGroupLen numbers of GroupNumbers.
MaxEvalLen == 3
MaxEvalDigit == 1
MaxGroupLen == 3

GroupNumbers == {0, 2, 3, 10}

MaxSingleNumber == 12

\* The groups given to the generators: up to MaxGroupLen of GroupNumbers,
\* and every number up to MaxSingleNumber alone.
Groups ==
    UNION {[1..n -> GroupNumbers] : n \in 1..MaxGroupLen}
    \cup {<<x>> : x \in 0..MaxSingleNumber}

EvalTokens == {PlainToken(d) : d \in 0..MaxEvalDigit} \cup {FactToken(MaxEvalDigit + 1)}

EvalArgs ==
    UNION {[tokens : [1..n -> EvalTokens], operators : [1..(n - 1) -> Range(OPERATORS)]] :
              n \in 1..MaxEvalLen}

\* evaluate_expression(digits, operators) called on a basic generator.
EvaluateExpression ==
    /\ engine = "basic" /\ Idle
    /\ \E a \in EvalArgs :
          Called("evaluate_expression", "", a,
                 evaluate_expression(a.tokens, a.operators))

\* The texts the four strategies build from a token choice and operators.
Strategies(tokens, operators) ==
    IF Len(tokens) = 1 THEN {tokens[1]}
    ELSE {BaseExpr(tokens, operators, "**")}
         \cup (IF Len(tokens) > 2
               THEN {ParenExpr(tokens, operators), GroupFirstTwo(tokens, operators),
                     GroupLastTwo(tokens, operators)}
               ELSE {})

\* What a call of safe_eval gives its caller: the exception it lets
\* through, or the value it returns.
SafeEvalCalled(expression, result) ==
    Called("safe_eval", IF IsErr(result) THEN result.e ELSE "", expression,
           IF IsErr(result) THEN None ELSE result)

\* fact( ) around the base text of two tokens.
FactOf(tokens, operators) ==
    IF Len(tokens) = 2
    THEN {<<Sym("fact"), Sym("(")>> \o BaseExpr(tokens, operators, "**") \o <<Sym(")")>>}
    ELSE {}

\* safe_eval(expression) called on an advanced generator.
SafeEval ==
    /\ engine = "advanced" /\ Idle
    /\ \E a \in EvalArgs :
          \E expression \in Strategies(a.tokens, a.operators)
                             \cup FactOf(a.tokens, a.operators) :
             SafeEvalCalled(expression, safe_eval(expression))

\* What a call of an expression generator gives its caller.
GeneratorCalled(method, numbers, generated) ==
    Called(method, generated.raised, numbers,
           IF generated.raised = "" THEN generated.exprs ELSE {})

\* generate_all_expressions(numbers) called on an advanced generator.
GenerateAllExpressions ==
    /\ engine = "advanced" /\ Idle
    /\ \E numbers \in Groups :
          GeneratorCalled("generate_all_expressions", numbers,
                          generate_all_expressions(numbers))

\* generate_with_custom_grouping(numbers) called on an advanced generator.
GenerateWithCustomGrouping ==
    /\ engine = "advanced" /\ Idle
    /\ \E numbers \in Groups :
          GeneratorCalled("generate_with_custom_grouping", numbers,
                          generate_with_custom_grouping(numbers))

InitEval == InitWith({DateInput}, Engines)

NextEval ==
    \/ BasicInit
    \/ AdvancedInit
    \/ EvaluateExpression
    \/ SafeEval
    \/ GenerateAllExpressions
    \/ GenerateWithCustomGrouping

SpecEval == InitEval /\ [][NextEval]_vars

\* ================================================================ claims
\* What a call returned, as a set of equations (or of expressions): the
\* basic searches return a list, the advanced ones are kept as a bag.
BasicSearches == {"generate_equations", "find_equations_with_grouping"}

AdvancedSearches == {"find_matching_equations", "find_creative_equations"}

Searches == BasicSearches \cup AdvancedSearches

Triples(method, value) ==
    IF method \in BasicSearches THEN Range(value) ELSE DOMAIN value

\* The outcomes of the calls of a method made so far.
Outcomes(method) == Range(results[method])

\* The call of `method` that has just returned, in a step that returns one.
Returns(method) == Len(results'[method]) > Len(results[method])

Returned(method) == results'[method][Len(results'[method])]

\* ---------------------------------------------------------------- C1
\* The decimal representation of a number, as its digits.
RECURSIVE Decimal(_)
Decimal(n) == IF n < 10 THEN <<n>> ELSE Append(Decimal(n \div 10), n % 10)

\* The decimal representations of the numbers of a partition, concatenated.
RECURSIVE Concat(_)
Concat(partition) ==
    IF partition = <<>> THEN <<>>
    ELSE Concat(SubSeq(partition, 1, Len(partition) - 1))
         \o Decimal(partition[Len(partition)])

\* C1: every partition returned by generate_digit_partitions, for digits of
\* length >= 3 and any max_groups, concatenates back (decimal representations
\* of its numbers, in order) to the digit sequence it was made from.
C1_PartitionsConcatenate ==
    \A o \in Outcomes("generate_digit_partitions") :
        \A i \in 1..Len(o.value) : Concat(o.value[i]) = digits

\* ---------------------------------------------------------------- C2
\* eval of a text of an equation, with ^ read as the power operator.
ValueOfText(text) == PyEval(ReplaceCaret(text))

\* |eval(l) - eval(r)| <= tolerance and v = eval(l)
Holds(equation, tolerance) ==
    /\ IsNumber(ValueOfText(equation[1]))
    /\ IsNumber(ValueOfText(equation[2]))
    /\ WithinTolerance(ValueOfText(equation[1]), ValueOfText(equation[2]), tolerance)
    /\ equation[3] = ValueOfText(equation[1])

\* '0 + 9 + 0 - 5' and '2 * 0 + 0 + 5' as the basic search of 09052005
\* meets them, and the test it applies to their results.
DatePairAgrees ==
    Agree(evaluate_expression(DigitTokens(<<0, 9, 0, 5>>), <<"+", "+", "-">>),
          evaluate_expression(DigitTokens(<<2, 0, 0, 5>>), <<"*", "+", "+">>),
          ToleranceRoot)

OwedFor(partition, tolerance) ==
    UNION {Matches(generate_all_expressions(SubSeq(partition, 1, s)).exprs,
                   generate_all_expressions(SubSeq(partition, s + 1,
                                                   Len(partition))).exprs,
                   tolerance) : s \in 1..(Len(partition) - 1)}

\* C3: find_matching_equations returns, for every partition of
\* generate_digit_partitions, every split point and every pair of
\* expressions of the two sides whose values are within the tolerance, the
\* equation (left text, right text, left value).
C3_MatchingComplete ==
    [][Returns("find_matching_equations") =>
          \A partition \in Range(generate_digit_partitions(digits, 5)) :
              OwedFor(partition, Returned("find_matching_equations").args)
                  \subseteq Triples("find_matching_equations",
                                    Returned("find_matching_equations").value)]_vars

\* ---------------------------------------------------------------- C4
\* The token choices of a side: a plain or a factorial token per digit.
TokenChoices(digits_list) ==
    {TokenChoice(token_options_for(digits_list), i) :
        i \in 1..NumTokenChoices(token_options_for(digits_list))}

\* The equations generate_equations owes for one split point: every token
\* choice and operator combination of the two sides whose results agree.
OwedAt(split_point, tolerance) ==
    {Equation(left_tokens, l, right_tokens, r, FALSE) :
        <<left_tokens, l, right_tokens, r>> \in
            {c \in TokenChoices(SubSeq(digits, 1, split_point))
                   \X (1..NumOperatorCombinations(split_point - 1))
                   \X TokenChoices(SubSeq(digits, split_point + 1, Len(digits)))
                   \X (1..NumOperatorCombinations(Len(digits) - split_point - 1)) :
                Agree(ResultOf(c[1], c[2]), ResultOf(c[3], c[4]), tolerance)}}

\* C4: generate_equations returns, for every split point, every token choice
\* (plain or factorial per digit) and every operator combination of the two
\* sides whose values agree within the tolerance, the triple (left text,
\* right text, value).
C4_BasicComplete ==
    [][Returns("generate_equations") =>
          \A split_point \in 1..(Len(digits) - 1) :
              OwedAt(split_point, Returned("generate_equations").args)
                  \subseteq Range(Returned("generate_equations").value)]_vars

\* ---------------------------------------------------------------- C5
\* ('0 * 9 + 0 + 5', '2 * 0 + 0 + 5', 5)
DateEquation ==
    << <<Num(0), Sym("*"), Num(9), Sym("+"), Num(0), Sym("+"), Num(5)>>,
       <<Num(2), Sym("*"), Num(0), Sym("+"), Num(0), Sym("+"), Num(5)>>,
       IntVal(5) >>

\* The equations found so far by the running call of generate_equations,
\* once it is past the split of the four leading against the four trailing
\* digits.
PastMiddleSplit ==
    IF call = "generate_equations" /\ loc.split_point > 4
    THEN {Range(loc.equations)} ELSE {}

\* C5: for input 09052005 the search run to completion returns the equation
\* '0 * 9 + 0 + 5' = '2 * 0 + 0 + 5' with value 5, obtained from the split of
\* the four leading against the four trailing digits: it is among the
\* equations found once that split has been searched, and among those
\* returned.
C5_DateEquationReturned ==
    digits = <<0, 9, 0, 5, 2, 0, 0, 5>> =>
        \A found \in PastMiddleSplit
                     \cup {Range(o.value) : o \in Outcomes("generate_equations")} :
            DateEquation \in found

\* ---------------------------------------------------------------- C6
\* ('1 + 2', '3', 3)
OnePlusTwo == << <<Num(1), Sym("+"), Num(2)>>, <<Num(3)>>, IntVal(3) >>

\* C6: for input 123 the result of the search (basic generate_equations and
\* advanced find_matching_equations) contains the equation '1 + 2' = '3' with
\* value 3.
C6_OnePlusTwoIsThree ==
    \A method \in {"generate_equations", "find_matching_equations"} :
        \A o \in Outcomes(method) :
            input = <<"1", "2", "3">> =>
                o.raised = "" /\ OnePlusTwo \in Triples(method, o.value)

\* Both engines have searched 123: the basic search has returned on one
\* generator, or the advanced one on the other.
C6_Witness ==
    /\ input = <<"1", "2", "3">>
    /\ \/ Outcomes("generate_equations") # {}
       \/ Outcomes("find_matching_equations") # {}
    /\ engine = "advanced" => Outcomes("find_matching_equations") # {}

\* ---------------------------------------------------------------- C7
\* The positions of the input string that hold a decimal digit character.
DigitPositions ==
    {i \in DOMAIN input :
        input[i] \in {"0", "1", "2", "3", "4", "5", "6", "7", "8", "9"}}

NoResults == \A method \in Methods : results[method] = <<>>

\* C7: constructing a generator (basic or advanced) from an input with fewer
\* than 3 digit characters fails with the insufficient-digits error, no digit
\* sequence is produced and no result can be obtained; with 3 or more digits
\* construction succeeds.
C7_FewerThanThreeDigitsFail ==
    /\ status = "failed" =>
           /\ Cardinality(DigitPositions) < 3
           /\ error = InsufficientDigits
           /\ digits = <<>>
           /\ call = "none"
           /\ NoResults
    /\ status = "ready" =>
           /\ Cardinality(DigitPositions) >= 3
           /\ error = ""
           /\ Len(digits) >= 3
    /\ status = "new" => NoResults

\* A construction from two digits and a separator has failed.
C7_Witness ==
    /\ status = "failed"
    /\ Cardinality(DigitPositions) = 2
    /\ Len(input) = 3

\* ---------------------------------------------------------------- C8
\* The value of a decimal digit character.
CharValue(c) ==
    CASE c = "0" -> 0 [] c = "1" -> 1 [] c = "2" -> 2 [] c = "3" -> 3
      [] c = "4" -> 4 [] c = "5" -> 5 [] c = "6" -> 6 [] c = "7" -> 7
      [] c = "8" -> 8 [] c = "9" -> 9 [] OTHER -> -1

RECURSIVE DigitSubsequence(_, _)
\* The digits of s from position i on, in order, the other characters left out.
DigitSubsequence(s, i) ==
    IF i > Len(s) THEN <<>>
    ELSE IF CharValue(s[i]) >= 0
         THEN <<CharValue(s[i])>> \o DigitSubsequence(s, i + 1)
         ELSE DigitSubsequence(s, i + 1)

\* C8: the digit sequence of a generator is exactly the subsequence of decimal
\* digit characters of the input string, in left-to-right order, each an
\* integer in 0..9; nothing dropped, duplicated or reordered.
C8_DigitsAreTheDigitCharacters ==
    status = "ready" =>
        /\ digits = DigitSubsequence(input, 1)
        /\ \A i \in DOMAIN digits : digits[i] \in 0..9

\* A generator made from a string with separators between its digits.
C8_Witness ==
    /\ status = "ready"
    /\ \E i \in DOMAIN input : input[i] = "/"
    /\ Len(digits) = 3
    /\ Len(input) = 5

\* ---------------------------------------------------------------- C9
\* What a call returned, as the claim compares it: the set of equations of a
\* search, the list of partitions of generate_digit_partitions.
ResultOfCall(method, o) ==
    IF method \in Searches THEN Triples(method, o.value) ELSE o.value

TextOf(method, o) ==
    IF method = "evaluate_expression"
    THEN BaseExpr(o.args.tokens, o.args.operators, "**")
    ELSE ReplaceCaret(o.args)

\* r is the parse of a whole text "a / b" or "root(a, b)" whose b is zero.
ByZero(t, r, op) ==
    /\ r.p = Len(t) + 1
    /\ r.v.op = op
    /\ IsZero(Run(r.v.b))

DividesByZero(t) == ByZero(t, ParseExpr(t, 1), "/")

RootByZero(t) == ByZero(t, ParseExpr(t, 1), "root")

\* The dividend, or the radicand, of such a text.
DividendOf(t) == Run(ParseExpr(t, 1).v.a)

\* C10: in both evaluators (evaluate_expression, safe_eval), for every value
\* a, evaluating root(a, 0) and a / 0 yields None, not a number and not an
\* exception.
C10_ByZeroIsNone ==
    \A method \in {"evaluate_expression", "safe_eval"} :
        \A o \in Outcomes(method) :
            DividesByZero(TextOf(method, o)) \/ RootByZero(TextOf(method, o)) =>
                o.value = None /\ o.raised = ""

\* One of the evaluators has been given a / 0 or root(a, 0) with a negative
\* a that is itself a difference.
C10_Witness ==
    \E method \in {"evaluate_expression", "safe_eval"} :
        \E o \in Outcomes(method) :
            /\ DividesByZero(TextOf(method, o)) \/ RootByZero(TextOf(method, o))
            /\ DividendOf(TextOf(method, o)) = IntVal(-1)
            /\ o.value = None

\* --------------------------------------------------------------- C11
Generators == {"generate_all_expressions", "generate_with_custom_grouping"}

\* The texts a generator returned.
TextsOf(o) == {e[1] : e \in o.value}

\* The numbers that stand under a factorial in a text.
FactArguments(text) ==
    {text[k + 2].n : k \in {k \in 1..(Len(text) - 3) : text[k] = Sym("fact")}}

\* The sum of the numbers, the i-th one under a factorial.
PlusChain(numbers, i) ==
    BaseExpr([j \in 1..Len(numbers) |->
                 IF j = i THEN FactToken(numbers[j]) ELSE PlainToken(numbers[j])],
             [j \in 1..(Len(numbers) - 1) |-> "+"], "**")

\* C11: when building expressions for a group of numbers, a factorial token
\* fact(x) is offered for a number x if and only if x is in 0..9; a number of
\* 10 or more only ever appears as its plain literal. (Stated on the returned
\* texts, on the token options, and, for a generator that returned, on the
\* sum of the group with one number under a factorial.)
C11_FactorialOfferedForDigitsOnly ==
    \A method \in Generators :
        \A o \in Outcomes(method) :
            /\ \A text \in TextsOf(o) :
                   FactArguments(text) \subseteq (Range(o.args) \cap 0..9)
            /\ \A i \in DOMAIN o.args :
                   (o.args[i] \in 0..9)
                       <=> (FactToken(o.args[i]) \in Range(TokenOptions(o.args)[i]))
            /\ o.raised = "" =>
                   \A i \in DOMAIN o.args :
                       (o.args[i] \in 0..9) <=> (PlusChain(o.args, i) \in TextsOf(o))

\* A generator has built the expressions of a group that holds a digit and a
\* number of two digits.
C11_Witness ==
    \E method \in Generators :
        \E o \in Outcomes(method) :
            /\ 10 \in Range(o.args)
            /\ 3 \in Range(o.args)
            /\ \E text \in TextsOf(o) : FactArguments(text) = {3}

\* --------------------------------------------------------------- C12
\* r is the parse of a whole text "fact(a)".
IsFactorialOf(t, r) == r.p = Len(t) + 1 /\ r.v.op = "fact"

FactorialText(t) == IsFactorialOf(t, ParseExpr(t, 1))

\* The argument of such a text.
ArgumentOf(t) == Run(ParseExpr(t, 1).v.a)

\* n! for n in 0..12, and no value for any other number.
FactorialOrNone(n) ==
    IF n.k = "rat" /\ n.d = 1 /\ n.n >= 0 /\ n.n <= 12
    THEN IntVal(Factorial(n.n))
    ELSE None

\* C12: in both evaluators fact(n) yields n! for every integer n in 0..12 and
\* no value for every other argument: n < 0, n > 12 or n not an integer.
C12_FactorialDomain ==
    \A method \in {"evaluate_expression", "safe_eval"} :
        \A o \in Outcomes(method) :
            FactorialText(TextOf(method, o)) /\ IsNumber(ArgumentOf(TextOf(method, o))) =>
                /\ o.raised = ""
                /\ o.value = FactorialOrNone(ArgumentOf(TextOf(method, o)))

\* --------------------------------------------------------------- C13
\* C13: evaluation failures never abort the search: generate_equations,
\* find_matching_equations and find_creative_equations always return a list,
\* and no exception of a failing candidate reaches the caller.
C13_SearchesNeverRaise ==
    \A method \in {"generate_equations", "find_matching_equations",
                   "find_creative_equations"} :
        \A o \in Outcomes(method) : o.raised = ""

\* --------------------------------------------------------------- C14
IsNumberSymbol(x) == x.s = "num"

IsOperatorSymbol(x) == x.s \in {"+", "-", "*", "/", "^", "**", "root"}

\* The numbers of a text, in the order in which they stand in it.
NumbersIn(text) ==
    [i \in 1..Len(SelectSeq(text, IsNumberSymbol)) |->
        SelectSeq(text, IsNumberSymbol)[i].n]

\* How many operators a text has.
OperatorsIn(text) == Len(SelectSeq(text, IsOperatorSymbol))

\* C14: every expression returned by generate_all_expressions and
\* generate_with_custom_grouping for a group of n numbers contains each number
\* of the group exactly once, in the group's order, joined by exactly n - 1
\* operators; the group-last-two variant repeats no token and no operator.
C14_EachNumberOnce ==
    \A method \in Generators :
        \A o \in Outcomes(method) :
            \A text \in TextsOf(o) :
                /\ NumbersIn(text) = o.args
                /\ OperatorsIn(text) = Len(o.args) - 1

\* --------------------------------------------------------------- C15
\* The value of the strict left-to-right evaluation
\* ((t0 op0 t1) op1 t2) ... up to the i-th operator.
RECURSIVE LeftToRight(_, _, _)
LeftToRight(tokens, operators, i) ==
    IF i = 0 THEN PyEval(tokens[1])
    ELSE Apply(IF operators[i] = "^" THEN "**" ELSE operators[i],
               LeftToRight(tokens, operators, i - 1), PyEval(tokens[i + 1]))

IsInfix(x) == x.s \in {"+", "-", "*", "/", "^", "**"}

\* How many parentheses are open at place k of a text.
DepthAt(text, k) ==
    Cardinality({m \in 1..k : text[m].s = "("})
    - Cardinality({m \in 1..k : text[m].s = ")"})

\* The places j < k stand in the same pair of parentheses.
SameGroup(text, j, k) ==
    \A m \in j..k : DepthAt(text, m) >= DepthAt(text, j)

\* Every infix operator stands in parentheses of its own (the parentheses of
\* root( , ) count as such).
FullyParenthesized(text) ==
    \A j \in 1..Len(text) :
        IsInfix(text[j]) =>
            /\ DepthAt(text, j) > 0
            /\ \A k \in (j + 1)..Len(text) :
                   IsInfix(text[k]) /\ DepthAt(text, k) = DepthAt(text, j)
                       => ~SameGroup(text, j, k)

\* A returned fully parenthesized expression has the value v.
HasParenthesized(o, v) ==
    \E e \in o.value : e[2] = v /\ FullyParenthesized(e[1])

\* C15: for a group of n >= 3 numbers, for every token choice and every
\* operator sequence (first operator ^ or root included) whose strict
\* left-to-right evaluation is defined and finite, the returned set contains a
\* fully parenthesized expression with exactly that value.
C15_LeftToRightParenthesized ==
    \A method \in Generators :
        \A o \in Outcomes(method) :
            Len(o.args) >= 3 =>
                \A c \in Choices(o.args) :
                    IsNumber(LeftToRight(c[1], c[2], Len(c[2])))
                        => HasParenthesized(o, LeftToRight(c[1], c[2], Len(c[2])))

\* --------------------------------------------------------------- C16
\* C16: for every digit sequence and every max_groups >= 2, every partition
\* returned by generate_digit_partitions(max_groups) other than the trivial
\* all-single-digit partition has at least 2 and at most max_groups groups.
C16_GroupCountBounded ==
    \A o \in Outcomes("generate_digit_partitions") :
        o.args >= 2 =>
            \A i \in DOMAIN o.value :
                \/ o.value[i] = digits
                \/ Len(o.value[i]) >= 2 /\ Len(o.value[i]) <= o.args

\* --------------------------------------------------------------- C17
\* The i-th smallest element of a set of numbers.
Nth(S, i) == CHOOSE x \in S : Cardinality({y \in S : y < x}) = i - 1

\* The number written by the digits d[a + 1], ..., d[b].
RECURSIVE ChunkValue(_, _, _)
ChunkValue(d, a, b) == IF b <= a THEN 0 ELSE 10 * ChunkValue(d, a, b - 1) + d[b]

\* The ends of the chunks when d is cut after the places in cuts.
Ends(d, cuts) == cuts \cup {0, Len(d)}

\* The chunk values of that cut, in order.
ChunksOf(d, cuts) ==
    [i \in 1..(Cardinality(cuts) + 1) |->
        ChunkValue(d, Nth(Ends(d, cuts), i), Nth(Ends(d, cuts), i + 1))]

\* Every chunk of the cut has 1 to 4 digits.
ShortChunks(d, cuts) ==
    \A i \in 1..(Cardinality(cuts) + 1) :
        Nth(Ends(d, cuts), i + 1) - Nth(Ends(d, cuts), i) <= 4

\* The cuts of d into 2..max_groups chunks of 1 to 4 digits.
Cuts(d, max_groups) ==
    {cuts \in SUBSET (1..(Len(d) - 1)) :
        /\ Cardinality(cuts) + 1 >= 2
        /\ Cardinality(cuts) + 1 <= max_groups
        /\ ShortChunks(d, cuts)}

\* C17: every way of cutting the digit string into k consecutive chunks of
\* length 1 to 4 with 2 <= k <= max_groups appears, as the list of chunk
\* values, in the result of generate_digit_partitions; the pruning rules
\* discard no branch that leads to such a cut.
C17_PartitionsComplete ==
    \A o \in Outcomes("generate_digit_partitions") :
        \A cuts \in Cuts(digits, o.args) :
            ChunksOf(digits, cuts) \in Range(o.value)

\* Eight digits have been cut into two groups: the one cut the pruning
\* leaves is the one in the middle.
C17_Witness ==
    \E o \in Outcomes("generate_digit_partitions") :
        /\ Len(digits) = 8
        /\ o.args = 2
        /\ Cuts(digits, o.args) = {{4}}
        /\ ChunksOf(digits, {4}) \in Range(o.value)

\* --------------------------------------------------------------- C18
\* A finite real number: an exact fraction or a real radical expression.
FiniteReal(v) == v.k \in {"rat", "surd"} /\ v.d > 0

\* C18: every expression retained by the expression generators and every
\* non-None value returned by the evaluators is a finite real number, the
\* value of its text; a candidate whose result is infinite, complex or
\* otherwise not a number is never returned and never added to an expression
\* set.
C18_OnlyFiniteReals ==
    /\ \A method \in {"evaluate_expression", "safe_eval"} :
           \A o \in Outcomes(method) :
               /\ o.value # None =>
                      FiniteReal(o.value) /\ o.value = PyEval(TextOf(method, o))
               /\ ~FiniteReal(PyEval(TextOf(method, o))) => o.value = None
    /\ \A method \in Generators :
           \A o \in Outcomes(method) :
               \A e \in o.value :
                   FiniteReal(e[2]) /\ e[2] = PyEval(ReplaceCaret(e[1]))

\* An evaluator was given a text whose value is a complex number, and
\* returned None.
C18_Witness ==
    \E method \in {"evaluate_expression", "safe_eval"} :
        \E o \in Outcomes(method) :
            /\ PyEval(TextOf(method, o)) = Complex
            /\ o.value = None
            /\ o.raised = ""

\* --------------------------------------------------------------- C19
\* x! for the single digits.
DigitFactorial(x) ==
    CASE x = 0 -> 1 [] x = 1 -> 1 [] x = 2 -> 2 [] x = 3 -> 6 [] x = 4 -> 24
      [] x = 5 -> 120 [] x = 6 -> 720 [] x = 7 -> 5040 [] x = 8 -> 40320
      [] x = 9 -> 362880

\* (str(x), x), and (fact(x), x!) for a single digit x.
SingleExpected(x) ==
    {<< <<Num(x)>>, IntVal(x) >>}
    \cup (IF x \in 0..9
          THEN {<< <<Sym("fact"), Sym("("), Num(x), Sym(")")>>, IntVal(DigitFactorial(x)) >>}
          ELSE {})

\* C19: for a group of a single number x, generate_all_expressions and
\* generate_with_custom_grouping return exactly (str(x), x) and, only when x
\* is in 0..9, (fact(x), x!) as well; no operator is applied and nothing else
\* is returned.
C19_SingleNumber ==
    \A method \in Generators :
        \A o \in Outcomes(method) :
            Len(o.args) = 1 =>
                o.raised = "" /\ o.value = SingleExpected(o.args[1])

\* A generator has been given the single number 9, and returned it with
\* its factorial.
C19_Witness ==
    \E method \in Generators :
        \E o \in Outcomes(method) :
            /\ o.args = <<9>>
            /\ Cardinality(o.value) = 2
            /\ << <<Num(9)>>, IntVal(9) >> \in o.value

\* --------------------------------------------------------------- C20
\* The (left text, right text) pairs of a set of equations.
TextPairs(equations) == {<<e[1], e[2]>> : e \in equations}

\* C20: after the deduplication applied to a search result (the set of its
\* triples) no two remaining equations share the same (left text, right text)
\* pair: equal texts carry the same value, so deduplicating by triple and by
\* text pair give the same result set.
C20_TextPairDeterminesValue ==
    \A method \in Searches :
        \A o \in Outcomes(method) :
            /\ \A e, f \in Triples(method, o.value) :
                   e[1] = f[1] /\ e[2] = f[2] => e = f
            /\ Cardinality(TextPairs(Triples(method, o.value)))
                   = Cardinality(Triples(method, o.value))

\* A search has returned two equations with the same left text and
\* different right texts.
C20_Witness ==
    \E method \in Searches :
        \E o \in Outcomes(method) :
            \E e, f \in Triples(method, o.value) :
                e[1] = f[1] /\ e[2] # f[2]

\* --------------------------------------------------------------- C21
\* The attributes of a generator are what they were before the step.
AttributesKept ==
    /\ digits' = digits
    /\ date_string' = date_string
    /\ input' = input
    /\ engine' = engine
    /\ status' = status
    /\ error' = error

\* C21: no operation of a generator changes its digit sequence or any other
\* attribute; the trivial partition returned is a copy, so the digit sequence
\* after any sequence of calls equals the one extracted at construction.
C21_AttributesReadOnly ==
    [][status = "ready" => AttributesKept /\ digits' = DigitSubsequence(input, 1)]_vars

\* Two calls have been made on a generator, one of them returned the trivial
\* partition, and the digits are those extracted at construction.
C21_Witness ==
    /\ status = "ready"
    /\ ncalls = 2
    /\ call = "none"
    /\ \E o \in Outcomes("generate_digit_partitions") : digits \in Range(o.value)
    /\ digits = DigitSubsequence(input, 1)

\* --------------------------------------------------------------- C22
\* A call in progress goes on: the interpreter runs the loops of a method
\* that has been entered until it returns or raises.
Running ==
    \/ GenerateEquationsStep \/ GenerateEquationsReturn
    \/ GroupingStep \/ GroupingReturn
    \/ FindMatchingStep \/ FindMatchingReturn
    \/ FindCreativeStep \/ FindCreativeReturn

\* The inputs on which the progress of the calls is followed.
FairInputs ==
    { <<"1", "2", "3">>, <<"0", "1", "1">>, <<"3", "/", "3", "3">>,
      <<"1", "2", "2", "2">>, <<"0", "1", "2", "2", "0">> }

InitFair == InitWith(FairInputs, Engines)

\* The call in progress takes a step: it stays in its method or leaves it,
\* whatever becomes of its locals and of the results, and the generator's
\* attributes stay.
Proceeds ==
    /\ call # "none"
    /\ call' \in {call, "none"}
    /\ loc' = NoLocals \/ loc' # NoLocals
    /\ results' = results \/ results' # results
    /\ UNCHANGED <<input, engine, status, error, digits, date_string, ncalls,
                   gui_vars>>

SpecFair == InitFair /\ [][Next]_vars /\ WF_vars(Proceeds)

\* The passes a call in progress has left, at most: the split points and
\* token choices of the basic searches, the partitions and splits of the
\* advanced ones.
Passes(method, locals, digits_list) ==
    IF method = "generate_equations"
    THEN (Len(digits_list) - locals.split_point) * (IPow(2, Len(digits_list)) + 1)
         + (IPow(2, Len(digits_list)) - locals.left_choice)
    ELSE IF method = "find_equations_with_grouping"
    THEN Len(digits_list) - locals.split_point
    ELSE (Len(locals.partitions) + 1 - locals.partition) * (Len(digits_list) + 1)
         + (Len(digits_list) + 1 - locals.split)

\* Every step of a call in progress ends it or leaves fewer passes.
PassesDecrease ==
    [][call # "none" =>
          \/ call' = "none"
          \/ /\ call' = call
             /\ Passes(call, loc', digits) >= 0
             /\ Passes(call, loc', digits) < Passes(call, loc, digits)]_vars

\* The last call of a method has returned a list.
ReturnedList(method) ==
    /\ call = "none"
    /\ results[method] # <<>>
    /\ results[method][Len(results[method])].raised = ""

\* The steps of a call in progress are the steps of its loops and its return.
ProceedsByRunning == [][Proceeds => Running]_vars

\* Every call in progress ends, by a return or by an exception.
EveryCallEnds == call # "none" ~> call = "none"

\* C22: the search is finite: generate_digit_partitions terminates and every
\* search operation performs a bounded number of evaluation steps and then
\* returns.
C22_SearchTerminatesAndReturns ==
    /\ PassesDecrease
    /\ ProceedsByRunning
    /\ EveryCallEnds
    /\ \A method \in Searches : (call = method) ~> ReturnedList(method)


\* ============================================================ the front ends
\* ---- A search run from its first pass to its end, as the worker thread of
\* a front end runs it on a generator of its own.
\* The locals of generate_equations after one more pass of
\* "for left_tokens in ...", as LeftTokensDone leaves them.
AfterLeftTokens(locals, body, last) ==
    [locals EXCEPT
        !.equations = @ \o body.equations,
        !.left_choice = IF last THEN 1 ELSE @ + 1,
        !.split_point = IF last THEN @ + 1 ELSE @,
        !.left_pos = IF last THEN 0 ELSE body.left_pos,
        !.right_pos = IF last THEN 0 ELSE body.right_pos]

LeftTokensPassOf(locals, left_token_options, right_token_options) ==
    AfterLeftTokens(locals,
                    RightTokensLoop(TokenChoice(left_token_options, locals.left_choice),
                                    right_token_options, 1,
                                    [equations |-> <<>>, left_pos |-> locals.left_pos,
                                     right_pos |-> locals.right_pos],
                                    locals.tolerance),
                    locals.left_choice = NumTokenChoices(left_token_options))

RECURSIVE GenerateEquationsFrom(_, _)
GenerateEquationsFrom(digits_list, locals) ==
    IF locals.split_point >= Len(digits_list) THEN locals.equations
    ELSE GenerateEquationsFrom(
             digits_list,
             LeftTokensPassOf(locals,
                              token_options_for(SubSeq(digits_list, 1,
                                                       locals.split_point)),
                              token_options_for(SubSeq(digits_list,
                                                       locals.split_point + 1,
                                                       Len(digits_list)))))

\* The list generate_equations() returns on a new generator with these
\* digits.
GenerateEquationsList(digits_list) ==
    GenerateEquationsFrom(
        digits_list,
        [tolerance |-> ToleranceRoot, equations |-> <<>>, split_point |-> 1,
         left_choice |-> 1, left_pos |-> 0, right_pos |-> 0])

\* generator.generate_equations() as the worker thread takes it.
GenerateEquationsRun(digits_list) ==
    [raised |-> "", equations |-> Range(GenerateEquationsList(digits_list))]

\* The passes of find_matching_equations from the split `split` of the
\* partition `partition` on, as SplitPass and SplitDone make them.
RECURSIVE FindMatchingFrom(_, _, _, _), FindMatchingSplit(_, _, _, _, _, _)
FindMatchingFrom(partitions, partition, split, equations) ==
    IF partition > Len(partitions) THEN [raised |-> "", equations |-> equations]
    ELSE IF split >= Len(partitions[partition])
    THEN FindMatchingFrom(partitions, partition + 1, 1, equations)
    ELSE FindMatchingSplit(partitions, partition, split, equations,
                           generate_all_expressions(
                               SubSeq(partitions[partition], 1, split)),
                           generate_all_expressions(
                               SubSeq(partitions[partition], split + 1,
                                      Len(partitions[partition]))))

FindMatchingSplit(partitions, partition, split, equations, left_expressions,
                  right_expressions) ==
    IF left_expressions.raised # ""
    THEN [raised |-> left_expressions.raised, equations |-> {}]
    ELSE IF right_expressions.raised # ""
    THEN [raised |-> right_expressions.raised, equations |-> {}]
    ELSE FindMatchingFrom(partitions, partition, split + 1,
                          equations \cup Matches(left_expressions.exprs,
                                                 right_expressions.exprs,
                                                 ToleranceRoot))

\* generator.find_matching_equations() on a new generator with these digits.
FindMatchingRun(digits_list) ==
    FindMatchingFrom(generate_digit_partitions(digits_list, 5), 1, 1, {})

\* ---- The two windows: BirthdayEquationGUI (birthday_equation_gui.py) and
\* EnhancedBirthdayEquationGUI (enhanced_gui.py). The model keeps the buttons,
\* the stored results, the worker threads and the callbacks they schedule
\* that touch these; the status line, the progress bar, the info text and
\* the message boxes are left out, with the callbacks that only write them.
\* MaxThreads bounds the generations started in one window.
MaxThreads == 2

Apps == {"basic_gui", "enhanced_gui"}

\* The dates the user types over the placeholder: blank, two digits (no
\* generator), a date with an equation (1 + 2 = 3) and a date with none.
DateEntries ==
    { <<" ">>, <<"1", "2">>, <<"1", "2", "3">>, <<"1", "2", "4">> }

\* str.strip() of the entry text.
RECURSIVE LStrip(_), RStrip(_)
LStrip(text) ==
    IF text # <<>> /\ Head(text) = " " THEN LStrip(Tail(text)) ELSE text

RStrip(text) ==
    IF text # <<>> /\ text[Len(text)] = " "
    THEN RStrip(SubSeq(text, 1, Len(text) - 1)) ELSE text

Strip(text) == LStrip(RStrip(text))

\* What the search of a worker thread gives on the digits of its generator:
\* generate_equations of the basic class, find_matching_equations of the
\* advanced one.
SearchOn(digits_list, generator_type) ==
    IF generator_type = "advanced" THEN FindMatchingRun(digits_list)
    ELSE GenerateEquationsRun(digits_list)

generator_vars ==
    <<input, engine, status, error, digits, date_string, call, loc, results, ncalls>>

IsEnhanced == app = "enhanced_gui"

\* self.root.after(0, f): a callback of the main loop and the worker thread
\* that scheduled it.
Callback(f, thread) == [f |-> f, thread |-> thread]

\* Either window after __init__ and setup_ui, the placeholder date in the
\* entry; no generator exists yet.
InitGui ==
    /\ \E kind \in Apps : Window(kind, DateInput)
    /\ input = <<>>
    /\ engine = "basic"
    /\ status = "new"
    /\ error = ""
    /\ digits = <<>>
    /\ date_string = <<>>
    /\ call = "none"
    /\ loc = NoLocals
    /\ results = [m \in Methods |-> <<>>]
    /\ ncalls = 0

\* ---- the user
\* The user replaces the text of the date entry.
TypeDate ==
    /\ app \in Apps
    /\ \E text \in DateEntries : date_var' = text /\ text # date_var
    /\ UNCHANGED <<app, generator_type_var, generate_btn, result_btns,
                   current_equations, current_date, current_digits, threads,
                   after_queue, displayed>>
    /\ UNCHANGED generator_vars

\* The user picks the other radio button (enhanced GUI).
SelectGeneratorType ==
    /\ IsEnhanced
    /\ generator_type_var' = IF generator_type_var = "basic" THEN "advanced" ELSE "basic"
    /\ UNCHANGED <<app, date_var, generate_btn, result_btns, current_equations,
                   current_date, current_digits, threads, after_queue, displayed>>
    /\ UNCHANGED generator_vars

\* A worker thread at the top of _generate_equations_thread.
NewThread(date_input, generator_type) ==
    [pc |-> "init", date_input |-> date_input, generator_type |-> generator_type,
     digits |-> <<>>, equations |-> {}, raised |-> ""]

\* generate_equations(self) of either window: a blank date is refused, any
\* other disables the buttons and starts a worker thread.
GuiGenerateEquations(date_input) ==
    /\ IF date_input = <<>>
       THEN UNCHANGED <<generate_btn, result_btns, threads>>
       ELSE /\ generate_btn' = "disabled"
            /\ result_btns' = "disabled"
            /\ threads' = Append(threads, NewThread(date_input, generator_type_var))
    /\ UNCHANGED <<app, date_var, generator_type_var, current_equations,
                   current_date, current_digits, after_queue, displayed>>
    /\ UNCHANGED generator_vars

\* Generations are explored on the typed dates, MaxThreads of them.
CanGenerate == date_var \in DateEntries /\ Len(threads) < MaxThreads

\* A click on the Generate button, which takes clicks while it is enabled.
ClickGenerate ==
    /\ app \in Apps /\ CanGenerate
    /\ generate_btn = "normal"
    /\ GuiGenerateEquations(Strip(date_var))

\* <Return> in the date entry: the binding calls generate_equations whatever
\* the state of the button.
PressReturn ==
    /\ app \in Apps /\ CanGenerate
    /\ GuiGenerateEquations(Strip(date_var))

\* ---- _generate_equations_thread: the steps of the worker thread i between
\* its writes to the attributes of the window.
Schedule(callbacks) == after_queue' = after_queue \o callbacks

Moves(i, thread) == threads' = [threads EXCEPT ![i] = thread]

ThreadLeaves ==
    UNCHANGED <<app, date_var, generator_type_var, generate_btn, result_btns,
                displayed>>

\* generator = ...Generator(date_input): fewer than three digits raise.
ThreadConstructs(i, found) ==
    IF Len(found) < 3
    THEN Moves(i, [threads[i] EXCEPT !.pc = "except", !.raised = InsufficientDigits])
    ELSE Moves(i, [threads[i] EXCEPT !.pc = "current_date", !.digits = found])

ThreadInit ==
    \E i \in DOMAIN threads :
        /\ threads[i].pc = "init"
        /\ ThreadConstructs(i, ExtractDigits(threads[i].date_input))
        /\ UNCHANGED <<current_equations, current_date, current_digits, after_queue>>
        /\ ThreadLeaves
        /\ UNCHANGED generator_vars

\* self.current_date = date_input
ThreadSetsDate ==
    \E i \in DOMAIN threads :
        /\ threads[i].pc = "current_date"
        /\ current_date' = threads[i].date_input
        /\ Moves(i, [threads[i] EXCEPT
                       !.pc = IF IsEnhanced THEN "current_digits" ELSE "generate"])
        /\ UNCHANGED <<current_equations, current_digits, after_queue>>
        /\ ThreadLeaves
        /\ UNCHANGED generator_vars

\* self.current_digits = generator.digits (enhanced GUI)
ThreadSetsDigits ==
    \E i \in DOMAIN threads :
        /\ threads[i].pc = "current_digits"
        /\ current_digits' = threads[i].digits
        /\ Moves(i, [threads[i] EXCEPT !.pc = "generate"])
        /\ UNCHANGED <<current_equations, current_date, after_queue>>
        /\ ThreadLeaves
        /\ UNCHANGED generator_vars

\* equations = generator.generate_equations() or find_matching_equations(),
\* then unique_equations = list(set(equations)), kept as the set: the order
\* the sort gives the list is not modelled.
ThreadSearched(i, run) ==
    IF run.raised # ""
    THEN Moves(i, [threads[i] EXCEPT !.pc = "except", !.raised = run.raised])
    ELSE Moves(i, [threads[i] EXCEPT !.pc = "current_equations",
                                     !.equations = run.equations])

ThreadGenerates ==
    \E i \in DOMAIN threads :
        /\ threads[i].pc = "generate"
        /\ ThreadSearched(i, SearchOn(threads[i].digits, threads[i].generator_type))
        /\ UNCHANGED <<current_equations, current_date, current_digits, after_queue>>
        /\ ThreadLeaves
        /\ UNCHANGED generator_vars

\* self.current_equations = unique_equations, then
\* self.root.after(0, self._update_results_ui)
ThreadStores ==
    \E i \in DOMAIN threads :
        /\ threads[i].pc = "current_equations"
        /\ current_equations' = threads[i].equations
        /\ Moves(i, [threads[i] EXCEPT !.pc = "finally"])
        /\ Schedule(<<Callback("_update_results_ui", i)>>)
        /\ UNCHANGED <<current_date, current_digits>>
        /\ ThreadLeaves
        /\ UNCHANGED generator_vars

\* An except block that ends the thread without its finally clause (mutant
\* of ThreadExcept).
ThreadExceptWithoutFinally ==
    \E i \in DOMAIN threads :
        /\ threads[i].pc = "except"
        /\ Moves(i, [threads[i] EXCEPT !.pc = "done"])
        /\ UNCHANGED <<current_equations, current_date, current_digits, after_queue>>
        /\ ThreadLeaves
        /\ UNCHANGED generator_vars

\* except Exception as e: the error is shown and nothing is stored.
ThreadExcept ==
    \E i \in DOMAIN threads :
        /\ threads[i].pc = "except"
        /\ Moves(i, [threads[i] EXCEPT !.pc = "finally"])
        /\ UNCHANGED <<current_equations, current_date, current_digits, after_queue>>
        /\ ThreadLeaves
        /\ UNCHANGED generator_vars

\* finally: self.root.after(0, lambda: self.generate_btn.config(state=tk.NORMAL))
ThreadFinally ==
    \E i \in DOMAIN threads :
        /\ threads[i].pc = "finally"
        /\ Moves(i, [threads[i] EXCEPT !.pc = "done"])
        /\ Schedule(<<Callback("generate_btn.config", i)>>)
        /\ UNCHANGED <<current_equations, current_date, current_digits>>
        /\ ThreadLeaves
        /\ UNCHANGED generator_vars

\* ---- the main loop
\* What preview_results, refresh_results_display and the export write: the
\* date, the digits (enhanced GUI) and the equations stored.
Content ==
    [date |-> current_date, digits |-> current_digits,
     equations |-> current_equations]

NoEquationsYet == [date |-> <<>>, digits |-> <<>>, equations |-> {}]

\* refresh_results_display(self)
RefreshResultsDisplay ==
    displayed' = IF current_equations = {} THEN NoEquationsYet ELSE Content

\* _update_results_ui(self): the enhanced GUI leaves the buttons as they
\* are when nothing was found.
UpdateResultsUi ==
    /\ result_btns' = IF current_equations # {} THEN "normal"
                      ELSE IF IsEnhanced THEN result_btns ELSE "disabled"
    /\ IF IsEnhanced /\ current_equations # {}
       THEN RefreshResultsDisplay ELSE UNCHANGED displayed
    /\ UNCHANGED generate_btn

\* The callback at the head of the queue.
Runs(callback) ==
    IF callback.f = "_update_results_ui" THEN UpdateResultsUi
    ELSE /\ generate_btn' = "normal"
         /\ UNCHANGED <<result_btns, displayed>>

\* The main loop runs the callbacks in the order they were scheduled.
RunCallback ==
    /\ app \in Apps
    /\ after_queue # <<>>
    /\ after_queue' = Tail(after_queue)
    /\ Runs(Head(after_queue))
    /\ UNCHANGED <<app, date_var, generator_type_var, current_equations,
                   current_date, current_digits, threads>>
    /\ UNCHANGED generator_vars

\* preview_results(self) of the basic GUI, on a click of its enabled button.
ClickPreview ==
    /\ app = "basic_gui"
    /\ result_btns = "normal"
    /\ IF current_equations = {} THEN UNCHANGED displayed ELSE displayed' = Content
    /\ UNCHANGED <<app, date_var, generator_type_var, generate_btn, result_btns,
                   current_equations, current_date, current_digits, threads,
                   after_queue>>
    /\ UNCHANGED generator_vars

\* save_to_file(self) and export_results(self, format_type), on a click of
\* an enabled button: nothing is written when the list is empty, when the
\* file dialog gives no path or when it fails.
ClickExport ==
    /\ app \in Apps
    /\ result_btns = "normal"
    /\ \/ UNCHANGED displayed
       \/ current_equations # {} /\ displayed' = Content
    /\ UNCHANGED <<app, date_var, generator_type_var, generate_btn, result_btns,
                   current_equations, current_date, current_digits, threads,
                   after_queue>>
    /\ UNCHANGED generator_vars

\* The Refresh button and the sort box of the enhanced GUI, never disabled.
Refresh ==
    /\ IsEnhanced
    /\ RefreshResultsDisplay
    /\ UNCHANGED <<app, date_var, generator_type_var, generate_btn, result_btns,
                   current_equations, current_date, current_digits, threads,
                   after_queue>>
    /\ UNCHANGED generator_vars

\* clear_results(self) and clear_all(self)
Clear ==
    /\ app \in Apps
    /\ current_equations' = {}
    /\ current_date' = <<>>
    /\ current_digits' = <<>>
    /\ result_btns' = "disabled"
    /\ displayed' = IF IsEnhanced THEN NoEquationsYet ELSE Nothing
    /\ UNCHANGED <<app, date_var, generator_type_var, generate_btn, threads,
                   after_queue>>
    /\ UNCHANGED generator_vars

NextGui ==
    \/ TypeDate
    \/ SelectGeneratorType
    \/ ClickGenerate
    \/ PressReturn
    \/ ThreadInit
    \/ ThreadSetsDate
    \/ ThreadSetsDigits
    \/ ThreadGenerates
    \/ ThreadStores
    \/ ThreadExcept
    \/ ThreadFinally
    \/ RunCallback
    \/ ClickPreview
    \/ ClickExport
    \/ Refresh
    \/ Clear

SpecGui == InitGui /\ [][NextGui]_vars

\* A step of a worker thread.
ThreadRuns ==
    \/ ThreadInit
    \/ ThreadSetsDate
    \/ ThreadSetsDigits
    \/ ThreadGenerates
    \/ ThreadStores
    \/ ThreadExcept
    \/ ThreadFinally

\* A step in which a worker thread that has not ended moves on: the steps
\* of ThreadRuns, told by what they change (ThreadsProceedByRunning).
ThreadProceeds ==
    /\ \E i \in DOMAIN threads :
          /\ threads[i].pc # "done"
          /\ \/ threads' = [threads EXCEPT ![i].pc = "done"]
             \/ Len(threads') = Len(threads) /\ threads'[i] # threads[i]
    /\ current_equations' = current_equations \/ current_equations' # current_equations
    /\ current_date' = current_date \/ current_date' # current_date
    /\ current_digits' = current_digits \/ current_digits' # current_digits
    /\ after_queue' = after_queue \/ after_queue' # after_queue
    /\ ThreadLeaves
    /\ UNCHANGED generator_vars

ThreadsProceedByRunning == [][ThreadProceeds => ThreadRuns]_vars

\* The same windows with threads that keep running once started and a main
\* loop that keeps running the callbacks scheduled. The user types dates,
\* picks generators and starts generations: preview, export, refresh and
\* clear write the display, the stored results and the result buttons,
\* which no step reads that writes the Generate button, the threads or the
\* callbacks.
NextGuiFair ==
    \/ TypeDate
    \/ SelectGeneratorType
    \/ ClickGenerate
    \/ PressReturn
    \/ ThreadInit
    \/ ThreadSetsDate
    \/ ThreadSetsDigits
    \/ ThreadGenerates
    \/ ThreadStores
    \/ ThreadExcept
    \/ ThreadFinally
    \/ RunCallback

SpecGuiFair ==
    InitGui /\ [][NextGuiFair]_vars /\ WF_vars(ThreadProceeds) /\ WF_vars(RunCallback)

\* ---------------------------------------------------------------- C23
\* No worker thread is running and every scheduled callback has run.
Quiet == after_queue = <<>> /\ \A i \in DOMAIN threads : threads[i].pc = "done"

Started(i) == app \in Apps /\ i \in DOMAIN threads

\* C23: in both GUIs every started generation, whether it finds equations,
\* finds none or fails, is eventually followed by the Generate button being
\* enabled again, and the button is enabled whenever no worker thread runs
\* and every scheduled callback has run.
C23_GenerateButtonReenabled ==
    /\ ThreadsProceedByRunning
    /\ \A i \in 1..MaxThreads : Started(i) ~> (generate_btn = "normal")
    /\ (generate_btn = "disabled") ~> (generate_btn = "normal")
    /\ [](Quiet => generate_btn = "normal")

\* A failed generation and one that found nothing, both over, and the
\* button enabled.
C23_Witness ==
    /\ Len(threads) = 2 /\ Quiet
    /\ threads[1].raised # ""
    /\ threads[2].raised = "" /\ threads[2].equations = {}
    /\ threads[2].digits # <<>>
    /\ generate_btn = "normal"

\* ---------------------------------------------------------------- C24
\* The worker threads that have started and not ended.
LiveThreads == {i \in DOMAIN threads : threads[i].pc # "done"}

\* C24: in both GUIs at most one generation worker thread exists at any
\* time: while a worker started by generate_equations has not finished, no
\* click on Generate and no <Return> in the date entry starts a second one.
C24_AtMostOneWorker == Cardinality(LiveThreads) <= 1

\* ---------------------------------------------------------------- C25
\* The date, the digits and the equations that the worker thread i stored,
\* once it has stored its equations.
StoredBy(i) ==
    [date |-> threads[i].date_input, digits |-> threads[i].digits,
     equations |-> threads[i].equations]

FromOneRun(content) ==
    \E i \in DOMAIN threads :
        /\ threads[i].pc \in {"finally", "done"}
        /\ threads[i].raised = ""
        /\ content = StoredBy(i)

\* C25: in the enhanced GUI, whatever refresh_results_display renders or
\* export_results writes holds the current_date, current_digits and
\* current_equations of one and the same generation run, never the date or
\* digits of a newer run with the equations of an older one.
C25_ShownFromOneRun ==
    (IsEnhanced /\ displayed \notin {Nothing, NoEquationsYet}) => FromOneRun(displayed)

\* ---------------------------------------------------------------- C26
\* C26: in both GUIs, in every state where no generation is in progress and
\* every scheduled callback has run, the preview, save and export buttons
\* are enabled if and only if the stored current_equations is not empty:
\* after a run that found equations, after one that found none, after one
\* that failed and left the previous results stored, and after Clear.
C26_ResultButtonsFollowResults ==
    (app \in Apps /\ Quiet) => (result_btns = "normal" <=> current_equations # {})

\* ---------------------------------------------------------------- C27
\* A side as find_equations_with_grouping returns it: in one pair of
\* parentheses when it has more than one digit.
InParentheses(text) ==
    IF Len(NumbersIn(text)) > 1 THEN <<Sym("(")>> \o text \o <<Sym(")")>> ELSE text

\* A list of generate_equations with the sides of each equation wrapped and
\* the value as it is.
WithSidesWrapped(equations) ==
    [i \in 1..Len(equations) |->
        <<InParentheses(equations[i][1]), InParentheses(equations[i][2]),
          equations[i][3]>>]

SidesOfPass ==
    IF loc.partition <= Len(loc.partitions)
       /\ loc.split < Len(loc.partitions[loc.partition])
    THEN {SubSeq(loc.partitions[loc.partition], 1, loc.split),
          SubSeq(loc.partitions[loc.partition], loc.split + 1,
                 Len(loc.partitions[loc.partition]))}
    ELSE {}

\* generate_with_custom_grouping gives every expression that
\* generate_all_expressions gives, and raises where it raises.
CustomContainsAll(numbers) ==
    /\ generate_with_custom_grouping(numbers).raised
           = generate_all_expressions(numbers).raised
    /\ generate_all_expressions(numbers).exprs
           \subseteq generate_with_custom_grouping(numbers).exprs

\* C28: on one generator, the equations find_creative_equations returns
\* contain those find_matching_equations returns, be it a call made on the
\* same generator or the run of find_matching_equations on its digits (and
\* it returns whenever find_matching_equations does); the partitions made with max_groups = 5 are
\* among those made with max_groups = 6; and on each side of every pass of
\* find_creative_equations, generate_with_custom_grouping gives every
\* expression of generate_all_expressions.
C28_CreativeContainsMatching ==
    /\ \A matching \in Outcomes("find_matching_equations"),
          creative \in Outcomes("find_creative_equations") :
           /\ creative.raised = matching.raised
           /\ Triples("find_matching_equations", matching.value)
                  \subseteq Triples("find_creative_equations", creative.value)
    /\ \A creative \in Outcomes("find_creative_equations") :
           /\ creative.raised = FindMatchingRun(digits).raised
           /\ FindMatchingRun(digits).equations
                  \subseteq Triples("find_creative_equations", creative.value)
    /\ \A five, six \in Outcomes("generate_digit_partitions") :
           (five.args = 5 /\ six.args = 6) => Range(five.value) \subseteq Range(six.value)
    /\ call = "find_creative_equations" =>
           \A numbers \in SidesOfPass : CustomContainsAll(numbers)

\* find_creative_equations has returned on 1222 with the equations that
\* find_matching_equations finds there and with grouped ones besides.
C28_Witness ==
    /\ digits = <<1, 2, 2, 2>>
    /\ FindMatchingRun(digits).equations # {}
    /\ \E creative \in Outcomes("find_creative_equations") :
           /\ creative.raised = ""
           /\ Triples("find_creative_equations", creative.value)
                  \ FindMatchingRun(digits).equations # {}

\* The partitions of an input of up to eight digits: the list made with
\* max_groups = 6 holds every partition of the list made with max_groups = 5,
\* and from six digits on some of six groups besides.
C28_PartitionsOfFiveAmongSix ==
    \A six \in Outcomes("generate_digit_partitions") :
        six.args = 6 =>
            /\ Range(generate_digit_partitions(digits, 5)) \subseteq Range(six.value)
            /\ Len(digits) >= 6 =>
                   \E partition \in Range(six.value) : Len(partition) = 6

\* The partitions of an eight digit input have been made with max_groups = 6.
C28_PartitionsWitness ==
    /\ Len(digits) = 8
    /\ \E six \in Outcomes("generate_digit_partitions") : six.args = 6

\* --------------------------------------------------------------- C29
\* The texts a side of tokens gives the basic evaluator, whatever the
\* operators.
BasicTexts(token_options) ==
    {BaseExpr(c[1], c[2], "**") : c \in ChoicesOf(token_options)}

\* The texts of the pass a search is in: those of both sides of its split,
\* handed to evaluate_expression or to safe_eval (the one number of a side of
\* one number takes math.factorial, and the text fact(n) is only returned).
TextsOfPass ==
    IF call = "generate_equations" /\ loc.split_point < Len(digits)
    THEN BasicTexts(token_options_for(SubSeq(digits, 1, loc.split_point)))
         \cup BasicTexts(token_options_for(SubSeq(digits, loc.split_point + 1,
                                                  Len(digits))))
    ELSE IF call = "find_equations_with_grouping" /\ loc.split_point < Len(digits)
    THEN BasicTexts([i \in 1..loc.split_point |->
                        <<DigitTokens(SubSeq(digits, 1, loc.split_point))[i]>>])
         \cup BasicTexts([i \in 1..(Len(digits) - loc.split_point) |->
                             <<DigitTokens(SubSeq(digits, loc.split_point + 1,
                                                  Len(digits)))[i]>>])
    ELSE IF call \in AdvancedSearches
    THEN UNION {IF Len(numbers) = 1
                THEN {e[1] : e \in SingleNumber(numbers[1]).exprs}
                ELSE IF call = "find_creative_equations" /\ Len(numbers) > 2
                THEN CustomTexts(numbers) \cup GuardedTexts(numbers)
                ELSE DefaultTexts(numbers) : numbers \in SidesOfPass}
    ELSE {}

\* The places of a text where fact is called.
FactCalls(text) == {i \in DOMAIN text : text[i] = Sym("fact")}

\* The call of fact at place i is fact(d) on a literal d of 0..9, which none
\* of the guards of fact refuses.
OnSingleDigit(text, i) ==
    /\ i + 3 <= Len(text)
    /\ text[i + 1] = Sym("(")
    /\ text[i + 2] \in {Num(d) : d \in 0..9}
    /\ text[i + 3] = Sym(")")
    /\ fact(IntVal(text[i + 2].n)) = IntVal(Factorial(text[i + 2].n))

\* C29: in every pass of every search of both engines, each fact( ) of each
\* text built is a call on one integer literal of 0..9, never on a longer
\* number or an expression, so that no guard of fact is triggered.
C29_FactorialOnSingleDigits ==
    \A text \in TextsOfPass : \A i \in FactCalls(text) : OnSingleDigit(text, i)

\* A pass of an advanced search on a side with a number of two digits: some
\* text holds that number and a factorial of a digit.
C29_Witness ==
    /\ call \in AdvancedSearches
    /\ \E numbers \in SidesOfPass :
          /\ Len(numbers) > 1
          /\ \E k \in DOMAIN numbers : numbers[k] > 9
    /\ \E text \in TextsOfPass :
          /\ FactCalls(text) # {}
          /\ \E i \in DOMAIN text : text[i].s = "num" /\ text[i].n > 9

\* --------------------------------------------------------------- C30
\* generate_digit_partitions without the date patterns: the splits and the
\* single digits, without duplicates, sorted.
WithoutDatePatterns(digits_list, max_groups) ==
    IF Len(digits_list) <= 1 THEN << digits_list >>
    ELSE SortPartitions(Unique(generate_splits(digits_list, <<>>, 0, 1, max_groups)
                               \o << digits_list >>),
                        1, 1, Len(digits_list))

\* C30: for eight digits and max_groups 5 or 6, each of the three date
\* patterns is among the splits made by generate_splits, and the list
\* generate_digit_partitions returns is the list made without the date
\* patterns.
C30_DatePatternsAlreadySplit ==
    \A o \in Outcomes("generate_digit_partitions") :
        (Len(digits) = 8 /\ o.args \in {5, 6}) =>
            /\ Range(DatePatterns(digits))
                   \subseteq Range(generate_splits(digits, <<>>, 0, 1, o.args))
            /\ o.value = WithoutDatePatterns(digits, o.args)

\* The partitions of eight digits have been made with max_groups = 5: the
\* three date patterns differ and are in the list.
C30_Witness ==
    /\ Len(digits) = 8
    /\ Cardinality(Range(DatePatterns(digits))) = 3
    /\ \E o \in Outcomes("generate_digit_partitions") :
          /\ o.args = 5
          /\ Range(DatePatterns(digits)) \subseteq Range(o.value)

=============================================================================
